---- MODULE Spec2Model ----
(***************************************************************************)
(* yc-bot-tg: the command registration and dispatch engine of commands.py  *)
(* (BaseCommand.register, __init_subclass__, run, help) with the shipped   *)
(* vm / pg / func groups.                                                  *)
(*                                                                         *)
(* Texts are TLA+ strings.  Two characters of the Python texts cannot be   *)
(* written in a TLA+ string and have stand-ins: the markdown backtick is   *)
(* written as an apostrophe, and the emoji that emojize() substitutes for  *)
(* an alias is written as the alias's code point in ASCII ("U+26A0").      *)
(***************************************************************************)
EXTENDS Integers, Sequences, FiniteSets, TLC

(***************************************************************************)
(* Bounds of the model.                                                    *)
(***************************************************************************)
\* most tokens that follow the first token of a dispatched token list
MaxArgs == 3

(***************************************************************************)
(* Python values.                                                          *)
(***************************************************************************)
\* Python's None; it holds a blank, so it is no whitespace-split token
None == " None"

\* Python truthiness of an Optional[str]
Truthy(v) == v # None /\ v # ""

(***************************************************************************)
(* String helpers (str.startswith, str.rstrip, str.join, str(int)).        *)
(***************************************************************************)
StartsWith(s, prefix) ==
    Len(s) >= Len(prefix) /\ SubSeq(s, 1, Len(prefix)) = prefix

RECURSIVE RStrip(_, _)
RStrip(s, ch) ==
    IF Len(s) > 0 /\ SubSeq(s, Len(s), Len(s)) = ch
    THEN RStrip(SubSeq(s, 1, Len(s) - 1), ch)
    ELSE s

RECURSIVE Join(_, _)
Join(sep, parts) ==
    IF parts = <<>> THEN ""
    ELSE IF Len(parts) = 1 THEN parts[1]
    ELSE parts[1] \o sep \o Join(sep, Tail(parts))

Digit(n) ==
    CASE n = 0 -> "0" [] n = 1 -> "1" [] n = 2 -> "2" [] n = 3 -> "3"
      [] n = 4 -> "4" [] n = 5 -> "5" [] n = 6 -> "6" [] n = 7 -> "7"
      [] n = 8 -> "8" [] n = 9 -> "9"

RECURSIVE Str(_)
Str(n) == IF n < 10 THEN Digit(n) ELSE Str(n \div 10) \o Digit(n % 10)

\* str.replace: every occurrence of pat, leftmost first
Occurrences(s, pat) ==
    {i \in 1..(Len(s) - Len(pat) + 1) : SubSeq(s, i, i + Len(pat) - 1) = pat}

RECURSIVE ReplaceAll(_, _, _)
ReplaceAll(s, pat, rep) ==
    IF Occurrences(s, pat) = {} THEN s
    ELSE LET i == CHOOSE k \in Occurrences(s, pat) : \A j \in Occurrences(s, pat) : k <= j
         IN  SubSeq(s, 1, i - 1) \o rep
                 \o ReplaceAll(SubSeq(s, i + Len(pat), Len(s)), pat, rep)

\* emoji.emojize, on the aliases commands.py writes
Emoji ==
    << <<":warning:", "U+26A0">>, <<":green_circle:", "U+1F7E2">>,
       <<":red_circle:", "U+1F534">>, <<":blue_circle:", "U+1F535">>,
       <<":red_exclamation_mark:", "U+2757">>, <<":white_question_mark:", "U+2754">>,
       <<":prohibited:", "U+1F6AB">>, <<":play_button:", "U+25B6">>,
       <<":stop_button:", "U+23F9">>, <<":repeat_button:", "U+1F501">>,
       <<":recycling_symbol:", "U+267B">> >>

RECURSIVE EmojizeFrom(_, _)
EmojizeFrom(text, k) ==
    IF k > Len(Emoji) THEN text
    ELSE EmojizeFrom(ReplaceAll(text, Emoji[k][1], Emoji[k][2]), k + 1)

emojize(text) == EmojizeFrom(text, 1)

(***************************************************************************)
(* Handler declarations: what inspect sees of a class body.  A method is   *)
(* its name, the flags of its @BaseCommand.register decorator (registered  *)
(* FALSE for an undecorated method), its parameters in order (self first)  *)
(* and its docstring.                                                      *)
(***************************************************************************)
Parameter(name, annotation, hasDefault) ==
    [name |-> name, annotation |-> annotation, hasDefault |-> hasDefault,
     kind |-> "POSITIONAL_OR_KEYWORD"]

\* a parameter declared after a bare * in the signature
KeywordOnly(name, annotation, hasDefault) ==
    [name |-> name, annotation |-> annotation, hasDefault |-> hasDefault,
     kind |-> "KEYWORD_ONLY"]

Method(name, registered, default, optional, params, doc) ==
    [name |-> name, registered |-> registered, default |-> default,
     optional |-> optional, params |-> params, doc |-> doc]

Self == Parameter("self", None, FALSE)
IdOrName == Parameter("id_or_name", "str", FALSE)
Inline == Parameter("inline", "bool", TRUE)

Plain(name, doc) == Method(name, FALSE, FALSE, FALSE, <<Self>>, doc)

InstanceCommandBody ==
    << Plain("__init__", None),
       Plain("_format_instance", None),
       Method("list", TRUE, TRUE, FALSE, <<Self, Inline>>,
              "show instances with their status and public ip"),
       Method("get", TRUE, FALSE, TRUE, <<Self, IdOrName>>,
              "show actions for specified instance"),
       Method("start", TRUE, FALSE, FALSE, <<Self, IdOrName>>,
              "start the instance"),
       Method("stop", TRUE, FALSE, FALSE, <<Self, IdOrName>>,
              "stop the instance"),
       Method("restart", TRUE, FALSE, FALSE, <<Self, IdOrName>>,
              "restart the instance") >>

PostgresCommandBody ==
    << Plain("__init__", None),
       Plain("_format_pg", None),
       Method("list", TRUE, TRUE, FALSE, <<Self, Inline>>,
              "show pg clusters with their status"),
       Method("get", TRUE, FALSE, TRUE, <<Self, IdOrName>>,
              "show actions for specified pg cluster"),
       Method("start", TRUE, FALSE, FALSE, <<Self, IdOrName>>,
              "start the cluster"),
       Method("stop", TRUE, FALSE, FALSE, <<Self, IdOrName>>,
              "stop the cluster") >>

FunctionCommandBody ==
    << Plain("__init__", None),
       Plain("_format_func", None),
       Method("list", TRUE, TRUE, FALSE, <<Self, Inline>>,
              "show functions with their public access status (opened / closed)"),
       Method("get", TRUE, FALSE, TRUE, <<Self, IdOrName>>,
              "show actions for specified function"),
       Method("open", TRUE, FALSE, FALSE, <<Self, IdOrName>>,
              "allow public access to invoke function"),
       Method("close", TRUE, FALSE, FALSE, <<Self, IdOrName>>,
              "disallow public access to invoke function") >>

\* the module-level table commands = {cls.name: cls ...}
ShippedGroups == {"vm", "pg", "func"}

(***************************************************************************)
(* Further subclasses of BaseCommand, written to put the engine in the     *)
(* cases no shipped group has: no default action, no optional action,      *)
(* neither, a two-argument action, a default action that requires an       *)
(* argument, an optional action that requires two, two handlers registered *)
(* with default=True and two with optional=True, a name defined twice, a   *)
(* required keyword-only parameter after a parameter with a default,       *)
(* parameters whose names begin with an underscore, a handler registered   *)
(* with default=True and optional=True.                                    *)
(***************************************************************************)
Src == Parameter("src", "str", FALSE)
Dst == Parameter("dst", "str", FALSE)

NoDefaultBody ==
    << Method("get", TRUE, FALSE, TRUE, <<Self, IdOrName>>, "show one"),
       Method("start", TRUE, FALSE, FALSE, <<Self, IdOrName>>, "start one") >>

NoOptionalBody ==
    << Method("list", TRUE, TRUE, FALSE, <<Self, Inline>>, "show all"),
       Method("start", TRUE, FALSE, FALSE, <<Self, IdOrName>>, "start one") >>

\* def close(self, id_or_name: str, _force: bool = ...)
\* def open(self, _ctx, id_or_name: str, filter_: str = ...)
BareBody ==
    << Method("link", TRUE, FALSE, FALSE, <<Self, Src, Dst>>, "link two"),
       Method("start", TRUE, FALSE, FALSE, <<Self, IdOrName>>, "start one"),
       Method("close", TRUE, FALSE, FALSE,
              <<Self, IdOrName, Parameter("_force", "bool", TRUE)>>, "close one"),
       Method("open", TRUE, FALSE, FALSE,
              <<Self, Parameter("_ctx", None, FALSE), IdOrName,
                Parameter("filter_", "str", TRUE)>>, "open one") >>

NeedyBody ==
    << Method("get", TRUE, TRUE, FALSE, <<Self, IdOrName>>, "show one"),
       Method("link", TRUE, FALSE, TRUE, <<Self, Src, Dst>>, "link two") >>

TwinsBody ==
    << Method("list", TRUE, TRUE, FALSE, <<Self, Inline>>, "show all"),
       Method("all", TRUE, TRUE, FALSE, <<Self>>, "show all again"),
       Method("get", TRUE, FALSE, TRUE, <<Self, IdOrName>>, "show one"),
       Method("find", TRUE, FALSE, TRUE, <<Self, IdOrName>>, "find one"),
       Method("list", TRUE, TRUE, FALSE, <<Self>>, "show all, redefined") >>

\* def link(self, src: str = ..., *, dst: str)
KeywordOnlyBody ==
    << Method("list", TRUE, TRUE, FALSE, <<Self, Inline>>, "show all"),
       Method("link", TRUE, FALSE, FALSE,
              <<Self, Parameter("src", "str", TRUE), KeywordOnly("dst", "str", FALSE)>>,
              "link two") >>

\* @BaseCommand.register(default=True, optional=True)
\* def get(self, id_or_name: str = ...)
BothBody ==
    << Method("get", TRUE, TRUE, TRUE,
              <<Self, Parameter("id_or_name", "str", TRUE)>>, "show one or all"),
       Method("start", TRUE, FALSE, FALSE, <<Self, IdOrName>>, "start one") >>

ProbeGroups == {"nodef", "noopt", "bare", "needy", "twins", "kwonly", "both"}

Groups == ShippedGroups \cup ProbeGroups

ClassBody(cls) ==
    CASE cls = "vm" -> InstanceCommandBody
      [] cls = "pg" -> PostgresCommandBody
      [] cls = "func" -> FunctionCommandBody
      [] cls = "nodef" -> NoDefaultBody
      [] cls = "noopt" -> NoOptionalBody
      [] cls = "bare" -> BareBody
      [] cls = "needy" -> NeedyBody
      [] cls = "twins" -> TwinsBody
      [] cls = "kwonly" -> KeywordOnlyBody
      [] cls = "both" -> BothBody

ClassDoc(cls) ==
    CASE cls = "vm" -> "compute instances management"
      [] cls = "pg" -> "postgres clusters management"
      [] cls = "func" -> "serverless functions management"
      [] OTHER -> "probe group"

(***************************************************************************)
(* BaseCommand.register: the decorator computes a method's argument specs  *)
(* and usage text from its signature and marks it as a sub-command.        *)
(***************************************************************************)
MapSeq(f(_), s) == [i \in 1..Len(s) |-> f(s[i])]

\* list(signature.parameters.values())[1:] without the '_' parameters
\* mutation of IsPublicParameter: every parameter is taken
IsPublicParameter_All(p) == TRUE

IsPublicParameter(p) == ~StartsWith(p.name, "_")
UserParameters(method) == SelectSeq(Tail(method.params), IsPublicParameter)

ArgOf(p) ==
    [name |-> RStrip(p.name, "_"), type |-> p.annotation, optional |-> p.hasDefault]

\* mutation of ArgSpecText: every argument is written as a required one
ArgSpecText_AllRequired(arg) ==
    LET named == IF Truthy(arg.type) THEN arg.name \o ":" \o arg.type ELSE arg.name
    IN  "<" \o named \o ">"

ArgSpecText(arg) ==
    LET named == IF Truthy(arg.type) THEN arg.name \o ":" \o arg.type ELSE arg.name
    IN  IF arg.optional THEN "[" \o named \o "]" ELSE "<" \o named \o ">"

ActionSpecText(name, default, optional) ==
    IF optional \/ default THEN "[" \o name \o "]" ELSE name

\* a function object: an undecorated method has none of the _ attributes
Undecorated(method) ==
    [__name__ |-> method.name, doc |-> method.doc, params |-> method.params,
     _args |-> <<>>, _formatted_spec |-> None, _is_sub_command |-> FALSE,
     _is_default |-> FALSE, _is_optional |-> FALSE]

register(default, optional, method) ==
    LET args == MapSeq(ArgOf, UserParameters(method))
        spec == <<ActionSpecText(method.name, default, optional)>>
                    \o MapSeq(ArgSpecText, args)
    IN  [__name__ |-> method.name, doc |-> method.doc, params |-> method.params,
         _args |-> args, _formatted_spec |-> Join(" ", spec),
         _is_sub_command |-> TRUE, _is_default |-> default,
         _is_optional |-> optional]

\* the class attribute a method of the class body becomes
Attribute(method) ==
    IF method.registered
    THEN register(method.default, method.optional, method)
    ELSE Undecorated(method)

\* BaseCommand.help, the one sub-command every group inherits
HelpFunction ==
    Undecorated(Method("help", FALSE, FALSE, FALSE, <<Self>>, "show commands"))

(***************************************************************************)
(* BaseCommand.__init_subclass__: the class metadata of a group.           *)
(***************************************************************************)
\* an insertion-ordered dict: a sequence of entries with distinct keys
Keys(dict) == {dict[i].key : i \in 1..Len(dict)}
Has(dict, key) == key \in Keys(dict)
Lookup(dict, key) == dict[CHOOSE i \in 1..Len(dict) : dict[i].key = key]
SetItem(dict, entry) ==
    IF Has(dict, entry.key)
    THEN [i \in 1..Len(dict) |-> IF dict[i].key = entry.key THEN entry ELSE dict[i]]
    ELSE Append(dict, entry)

Entry(name, func, args) == [key |-> name, func |-> func, args |-> args]

\* _def_regex.findall(inspect.getsource(cls)): the def names in source order
DefNames(cls) == MapSeq(LAMBDA m : m.name, ClassBody(cls))

\* list.index: the first position of a value
Index(seq, v) == CHOOSE i \in 1..Len(seq) : seq[i] = v /\ \A j \in 1..(i - 1) : seq[j] # v

\* the class namespace: a name is bound to its last definition in the body
Namespace(cls) ==
    {i \in 1..Len(ClassBody(cls)) :
        \A j \in (i + 1)..Len(ClassBody(cls)) :
            ClassBody(cls)[j].name # ClassBody(cls)[i].name}

\* the (name, function) pairs with _is_sub_command, whatever the order
\* inspect.getmembers returns them in
MemberSet(cls) ==
    {<<ClassBody(cls)[i].name, Attribute(ClassBody(cls)[i])>> :
        i \in {j \in Namespace(cls) : ClassBody(cls)[j].registered}}

\* mutation of SortByIndex: the members are put in descending order
RECURSIVE SortByIndex_Descending(_, _)
SortByIndex_Descending(pairs, methods) ==
    IF pairs = {} THEN <<>>
    ELSE LET first == CHOOSE p \in pairs :
                 \A q \in pairs : Index(methods, p[1]) >= Index(methods, q[1])
         IN  <<first>> \o SortByIndex_Descending(pairs \ {first}, methods)

\* members.sort(key=lambda pair: methods.index(pair[0]))
RECURSIVE SortByIndex(_, _)
SortByIndex(pairs, methods) ==
    IF pairs = {} THEN <<>>
    ELSE LET first == CHOOSE p \in pairs :
                 \A q \in pairs : Index(methods, p[1]) <= Index(methods, q[1])
         IN  <<first>> \o SortByIndex(pairs \ {first}, methods)

SortedMembers(cls) == SortByIndex(MemberSet(cls), DefNames(cls))

\* mutation of RegisterMember: a default handler is named but not entered
RegisterMember_DefaultUnregistered(meta, pair) ==
    LET name == pair[1]
        method == pair[2]
    IN  [_sub_commands |->
             IF method._is_default THEN meta._sub_commands
             ELSE SetItem(meta._sub_commands, Entry(name, method, method._args)),
         _default_command |->
             IF method._is_default THEN name ELSE meta._default_command,
         _optional_command |->
             IF ~method._is_default /\ method._is_optional
             THEN name ELSE meta._optional_command]

\* mutation of RegisterMember: the two flags are looked at independently
RegisterMember_OptionalToo(meta, pair) ==
    LET name == pair[1]
        method == pair[2]
    IN  [_sub_commands |-> SetItem(meta._sub_commands, Entry(name, method, method._args)),
         _default_command |->
             IF method._is_default THEN name ELSE meta._default_command,
         _optional_command |->
             IF method._is_optional THEN name ELSE meta._optional_command]

\* one pass of the for loop of lines 74-79
RegisterMember(meta, pair) ==
    LET name == pair[1]
        method == pair[2]
    IN  [_sub_commands |-> SetItem(meta._sub_commands, Entry(name, method, method._args)),
         _default_command |->
             IF method._is_default THEN name ELSE meta._default_command,
         _optional_command |->
             IF ~method._is_default /\ method._is_optional
             THEN name ELSE meta._optional_command]

RECURSIVE RegisterAll(_, _)
RegisterAll(meta, members) ==
    IF members = <<>> THEN meta
    ELSE RegisterAll(RegisterMember(meta, Head(members)), Tail(members))

init_subclass(cls) ==
    RegisterAll([_sub_commands |-> <<Entry("help", HelpFunction, <<>>)>>,
                 _default_command |-> None,
                 _optional_command |-> None],
                SortedMembers(cls))

(***************************************************************************)
(* State.  The class metadata is built once, when the classes are created; *)
(* everything else belongs to one dispatch: the BaseCommand instance, the  *)
(* locals of run() and what the dispatch has done so far.                  *)
(***************************************************************************)
VARIABLES
    _sub_commands,      \* cls._sub_commands, per group: an ordered dict
    _default_command,   \* cls._default_command, per group
    _optional_command,  \* cls._optional_command, per group
    rebuilt,            \* the class created anew since the last dispatch, or None
    pc,                 \* per dispatch: where run() stands
    self,               \* per dispatch: the instance (cls, _args, _request_id)
    surface,            \* per dispatch: what triggered it, a message or a button
    action,             \* per dispatch: run()'s local action
    args,               \* per dispatch: run()'s local args
    raised,             \* per dispatch: the exception that left run(), or None
    handler_exc,        \* per dispatch: the exception handler(self, *args) ended with
    trace,              \* per dispatch: log records, handler calls and replies, in order
    call,               \* main.py: call.data of the callback query being handled
    cb_pc,              \* main.py: where callback_query stands
    cb_result,          \* main.py: what the helper of the cloud call returned
    cb_raised,          \* main.py: the exception that left callback_query, or None
    bot_calls           \* main.py: the Bot API calls of callback_query, in order

classVars == <<_sub_commands, _default_command, _optional_command>>
dispatchVars == <<rebuilt, pc, self, surface, action, args, raised, handler_exc, trace>>
callbackVars == <<call, cb_pc, cb_result, cb_raised, bot_calls>>
vars == <<_sub_commands, _default_command, _optional_command, rebuilt,
          pc, self, surface, action, args, raised, handler_exc, trace,
          call, cb_pc, cb_result, cb_raised, bot_calls>>

Dispatches == {1, 2}

(***************************************************************************)
(* What a dispatch does that the outside sees, in order.                   *)
(***************************************************************************)
Event(kind, who, eargs, text, edit, markup) ==
    [kind |-> kind, who |-> who, args |-> eargs, text |-> text,
     edit |-> edit, markup |-> markup]

\* logger.warning / logger.info: the level, the % arguments, the message
LogEv(level, logargs, text) == Event("log", level, logargs, text, FALSE, <<>>)
\* self._reply_raw(text, markup, edit=edit)
ReplyEv(text, markup, edit) == Event("reply", "", <<>>, text, edit, markup)
\* handler(self, *args)
CallEv(name, callargs) == Event("call", name, callargs, "", FALSE, <<>>)

\* markup=None; every markup the handlers build holds a button, so the empty
\* keyboard stands for None
NoMarkup == <<>>

OfKind(events, kind) == SelectSeq(events, LAMBDA e : e.kind = kind)

(***************************************************************************)
(* Exceptions.                                                             *)
(***************************************************************************)
NoException == [type |-> None, text |-> "", code |-> None, details |-> ""]
\* AppException(text), raised by the code itself
AppException(text) ==
    [type |-> "AppException", text |-> text, code |-> None, details |-> ""]
\* an exception of another class
OtherException(type) == [type |-> type, text |-> "", code |-> None, details |-> ""]

\* mutation of format: the gRPC status of the context is not looked at
format_StrOnly(err) == err.text

\* AppException.format
format(err) ==
    IF err.code # None THEN err.code \o ": " \o err.details ELSE err.text

(***************************************************************************)
(* BaseCommand.build_help, help and _reply_error.                          *)
(***************************************************************************)
HelpLine(cls, func) ==
    LET spec == IF func._formatted_spec # None
                THEN func._formatted_spec ELSE func.__name__
    IN  "'/" \o cls \o " " \o spec \o "' - " \o func.doc

build_help(cls, sub_commands) ==
    LET docs == <<"/" \o cls \o " - " \o ClassDoc(cls) \o "\n">>
                  \o [i \in 1..Len(sub_commands) |-> HelpLine(cls, sub_commands[i].func)]
    IN  emojize(Join("\n", docs))

\* mutation of reply_error: the text is sent as it is, without the marker
reply_error_Plain(rid, text, inline) ==
    << LogEv("warning", <<rid, text>>, "[" \o rid \o "] error: " \o text),
       ReplyEv(text, NoMarkup, inline) >>

\* mutation of reply_error: the error is logged after it is delivered
reply_error_LogAfter(rid, text, inline) ==
    << ReplyEv(emojize(":warning: '" \o text \o "'"), NoMarkup, inline),
       LogEv("warning", <<rid, text>>, "[" \o rid \o "] error: " \o text) >>

\* the events of self._reply_error(text, inline=inline)
reply_error(rid, text, inline) ==
    << LogEv("warning", <<rid, text>>, "[" \o rid \o "] error: " \o text),
       ReplyEv(emojize(":warning: '" \o text \o "'"), NoMarkup, inline) >>

(***************************************************************************)
(* Handlers.  A run of a handler is the events it produces and the         *)
(* exception it ends with (NoException when it returns).                   *)
(***************************************************************************)
Run(events, exc) == [events |-> events, exc |-> exc]

\* mutation of help: the help text replaces the triggering message
help_Inline(cls, sub_commands) ==
    {Run(<<ReplyEv(build_help(cls, sub_commands), NoMarkup, TRUE)>>, NoException)}

\* BaseCommand.help
help(cls, sub_commands) ==
    {Run(<<ReplyEv(build_help(cls, sub_commands), NoMarkup, FALSE)>>, NoException)}

\* a handler of a probe group: its body returns or raises a domain error
ProbeHandler(name) ==
    {Run(<<>>, NoException), Run(<<>>, AppException(name \o " failed"))}

(***************************************************************************)
(* The resource clients (cloud_api.py).  What the cloud answers is the     *)
(* environment's choice: a call of the gRPC stub returns, or raises a      *)
(* grpc.RpcError that is a grpc.Call with a status code, or one that is    *)
(* not.                                                                    *)
(***************************************************************************)
\* a result: the events of the call, the exception it raised, the value
\* it returned (always a sequence of resources)
Res(events, exc, value) == [events |-> events, exc |-> exc, value |-> value]

\* results, then f on the value of each one that returned
Bind(results, f(_)) ==
    UNION {IF r.exc.type # None THEN {r}
           ELSE {Res(r.events \o q.events, q.exc, q.value) : q \in f(r.value)} :
           r \in results}

\* a call of the stub: the method, the request, and how the call ended
RpcEv(method, request, status) == Event("rpc", method, <<request>>, status, FALSE, <<>>)

StatusCodes == {"NOT_FOUND", "INVALID_ARGUMENT", "UNAVAILABLE"}
RpcError(code) ==
    [type |-> "RpcError", text |-> "", code |-> code,
     details |-> IF code = None THEN "" ELSE "upstream said no"]
RpcErrors == {RpcError(code) : code \in StatusCodes \cup {None}}

\* how a call that raised error ended; an RpcError that is no grpc.Call has
\* no status
StatusOf(error) == IF error.code = None THEN "no status" ELSE error.code

Resource(id, name, status) == [id |-> id, name |-> name, status |-> status]

\* the stub's unary calls
Stub(method, request, values) ==
    {Res(<<RpcEv(method, request, "OK")>>, NoException, v) : v \in values}
        \cup {Res(<<RpcEv(method, request, StatusOf(e))>>, e, <<>>) : e \in RpcErrors}

\* mutation of is_not_found: every status counts as not found
is_not_found_AnyStatus(error) == error.code # None

\* BaseRepo._is_not_found
is_not_found(error) == error.code \in {"INVALID_ARGUMENT", "NOT_FOUND"}

\* BaseRepo.call_grpc: raise AppException from e
call_grpc(results) ==
    {IF r.exc.type = "RpcError"
     THEN Res(r.events,
              [type |-> "AppException", text |-> "", code |-> r.exc.code,
               details |-> r.exc.details],
              <<>>)
     ELSE r : r \in results}

\* what List answers: none, one or two resources; filter_ is None or the
\* name that get_single searches for, and then the resources have that name
Listed(cls, filter_) ==
    LET named(n) == IF filter_ = None THEN cls \o "-" \o n ELSE filter_
        a == Resource("id-1", named("1"), "running")
        b == Resource("id-2", named("2"), "running")
    IN  {<<>>, <<a>>, <<a, b>>}

\* f'name="{id_or_name}"'
FilterText(filter_) ==
    IF filter_ = None THEN None ELSE "name=\"" \o filter_ \o "\""

\* ServerlessFunctionRepo._get_bindings, and the status it decides
WithBindings(function) ==
    {Res(<<RpcEv("ListAccessBindings", function.id, "OK")>>, NoException,
         <<Resource(function.id, function.name, st)>>) : st \in {"opened", "closed"}}
        \cup {Res(<<RpcEv("ListAccessBindings", function.id, StatusOf(e))>>, e, <<>>) :
                 e \in RpcErrors}

RECURSIVE EachWithBindings(_)
EachWithBindings(functions) ==
    IF functions = <<>> THEN {Res(<<>>, NoException, <<>>)}
    ELSE Bind(WithBindings(Head(functions)),
              LAMBDA first : Bind(EachWithBindings(Tail(functions)),
                                  LAMBDA rest : {Res(<<>>, NoException, first \o rest)}))

\* InstanceRepo / PostgresRepo / ServerlessFunctionRepo.get_list
get_list(cls, filter_) ==
    LET listed == Stub("List", FilterText(filter_), Listed(cls, filter_))
    IN  call_grpc(IF cls = "func" THEN Bind(listed, EachWithBindings) ELSE listed)

\* the text of AppException('... not found')
NotFoundText(cls) ==
    CASE cls = "vm" -> "instance not found"
      [] cls = "pg" -> "pg cluster not found"
      [] cls = "func" -> "function not found"

\* the except clause of get_single, handling err (a grpc.RpcError)
Fallback(cls, id_or_name, err) ==
    IF ~is_not_found(err) THEN {Res(<<>>, err, <<>>)}
    ELSE IF cls = "pg"
    THEN \* self.get_list(filter=...): get_list has no parameter filter
         {Res(<<>>, OtherException("TypeError"), <<>>)}
    ELSE Bind(get_list(cls, id_or_name),
              LAMBDA found :
                 IF found = <<>>
                 THEN \* raised while err is handled: err is its __context__
                      {Res(<<>>, [type |-> "AppException", text |-> NotFoundText(cls),
                                  code |-> err.code, details |-> err.details], <<>>)}
                 ELSE {Res(<<>>, NoException, <<found[1]>>)})

\* InstanceRepo / PostgresRepo / ServerlessFunctionRepo.get_single
get_single(cls, id_or_name) ==
    LET got == Stub("Get", id_or_name,
                    {<<Resource(id_or_name, cls \o "-1", "running")>>})
        after(r) ==
            IF r.exc.type = "RpcError"
            THEN Bind({Res(r.events, NoException, <<>>)},
                      LAMBDA none : Fallback(cls, id_or_name, r.exc))
            ELSE IF cls = "func" THEN Bind({r}, LAMBDA f : WithBindings(f[1]))
            ELSE {r}
    IN  call_grpc(UNION {after(r) : r \in got})

\* start / stop / restart / open / close of the repos
MutatingRpc(cls, name) ==
    CASE name = "start" -> "Start"
      [] name = "stop" -> "Stop"
      [] name = "restart" -> "Restart"
      [] name \in {"open", "close"} -> "SetAccessBindings"

mutate(cls, name, id_) == call_grpc(Stub(MutatingRpc(cls, name), id_, {<<>>}))

(***************************************************************************)
(* The handlers of the shipped groups (InstanceCommand, PostgresCommand,   *)
(* FunctionCommand).                                                       *)
(***************************************************************************)
\* BaseCommand.format_command
format_command(cls, cargs) ==
    "/" \o cls \o (IF cargs # <<>> THEN " " \o Join(" ", cargs) ELSE "")

Button(text, callback_data) == [text |-> text, callback_data |-> callback_data]

\* _format_instance / _format_pg / _format_func
StatusEmoji(status) ==
    CASE status \in {"running", "opened"} -> emojize(":green_circle:")
      [] status = "stopped" -> emojize(":red_circle:")
      [] status = "in-progress" -> emojize(":blue_circle:")
      [] status = "error" -> emojize(":red_exclamation_mark:")
      [] status = "unknown" -> emojize(":white_question_mark:")
      [] status = "closed" -> emojize(":prohibited:")

\* PostgresClusterStatus: the name of the member with that value
Upper(status) ==
    CASE status = "running" -> "RUNNING"
      [] status = "in-progress" -> "IN_PROGRESS"
      [] status = "stopped" -> "STOPPED"
      [] status = "error" -> "ERROR"
      [] status = "unknown" -> "UNKNOWN"

FormatResource(cls, r) ==
    CASE cls = "vm" -> StatusEmoji(r.status) \o " " \o r.name \o " " \o r.status
      [] cls = "pg" -> StatusEmoji(r.status) \o " " \o r.name \o " " \o Upper(r.status)
      [] cls = "func" -> StatusEmoji(r.status) \o " " \o r.name
                            \o " [invoke](https://invoke/" \o r.id \o ")"

ChooseText(cls) ==
    CASE cls = "vm" -> "choose vm"
      [] cls = "pg" -> "choose pg cluster"
      [] cls = "func" -> "choose function"

Noun(cls) ==
    CASE cls = "vm" -> "instance"
      [] cls = "pg" -> "pg cluster"
      [] cls = "func" -> "function"

Doing(name) ==
    CASE name = "start" -> "starting"
      [] name = "stop" -> "stopping"
      [] name = "restart" -> "restarting"
      [] name = "open" -> "opened"
      [] name = "close" -> "closed"

\* mutation of Mutators: every group offers the keyboard of vm
Mutators_AllRestart(cls) == <<"start", "stop", "restart">>

\* the state-changing actions of a group, in the order of its get keyboard
Mutators(cls) ==
    CASE cls = "vm" -> <<"start", "stop", "restart">>
      [] cls = "pg" -> <<"start", "stop">>
      [] cls = "func" -> <<"open", "close">>

MutatorEmoji(name) ==
    CASE name \in {"start", "open"} -> ":play_button: "
      [] name \in {"stop", "close"} -> ":stop_button: "
      [] name = "restart" -> ":repeat_button: "

RefreshButton(cls, cargs) ==
    Button(emojize(":recycling_symbol: refresh"), format_command(cls, cargs))

\* mutation of list: nothing is sent when there is nothing to choose from
list_SilentWhenEmpty(cls, callargs) ==
    Bind(get_list(cls, None),
         LAMBDA items :
            {Res(IF items = <<>> THEN <<>>
                 ELSE <<ReplyEv(ChooseText(cls), NoMarkup, FALSE)>>,
                 NoException, <<>>)})

\* list(self, inline=False); inline is the token when one was given
list(cls, callargs) ==
    LET inline == callargs # <<>> /\ callargs[1] # ""
    IN  Bind(get_list(cls, None),
             LAMBDA items :
                {Res(<<ReplyEv(
                         Join("\n", <<ChooseText(cls)>>
                             \o [i \in 1..Len(items) |-> FormatResource(cls, items[i])]),
                         [i \in 1..(Len(items) + 1) |->
                             IF i <= Len(items)
                             THEN <<Button(items[i].name,
                                           format_command(cls, <<"get", items[i].id>>))>>
                             ELSE <<RefreshButton(cls, <<"list", "true">>)>>],
                         inline)>>,
                     NoException, <<>>)})

\* get(self, id_or_name)
get(cls, callargs) ==
    Bind(get_single(cls, callargs[1]),
         LAMBDA one :
            {Res(<<ReplyEv(
                     FormatResource(cls, one[1]),
                     << [i \in 1..Len(Mutators(cls)) |->
                            Button(emojize(MutatorEmoji(Mutators(cls)[i]) \o Mutators(cls)[i]),
                                   format_command(cls, <<Mutators(cls)[i], one[1].id>>))],
                        <<RefreshButton(cls, <<"get", one[1].id>>)>> >>,
                     TRUE)>>,
                 NoException, <<>>)})

\* mutation of change: the client is asked to act on the token, not on the
\* id of the resource that was looked up
change_ByToken(cls, name, callargs) ==
    Bind(get_single(cls, callargs[1]),
         LAMBDA one :
            Bind(mutate(cls, name, callargs[1]),
                 LAMBDA none :
                    {Res(<<ReplyEv(Noun(cls) \o " '" \o one[1].name \o "' " \o Doing(name),
                                   NoMarkup, TRUE)>>,
                         NoException, <<>>)}))

\* mutation of change: the reply is sent before the client is asked to act
change_ReplyFirst(cls, name, callargs) ==
    Bind(get_single(cls, callargs[1]),
         LAMBDA one :
            Bind({Res(<<ReplyEv(Noun(cls) \o " '" \o one[1].name \o "' " \o Doing(name),
                                NoMarkup, TRUE)>>,
                      NoException, <<>>)},
                 LAMBDA none : mutate(cls, name, one[1].id)))

\* start / stop / restart / open / close (self, id_or_name)
change(cls, name, callargs) ==
    Bind(get_single(cls, callargs[1]),
         LAMBDA one :
            Bind(mutate(cls, name, one[1].id),
                 LAMBDA none :
                    {Res(<<ReplyEv(Noun(cls) \o " '" \o one[1].name \o "' " \o Doing(name),
                                   NoMarkup, TRUE)>>,
                         NoException, <<>>)}))

ShippedHandler(cls, name, callargs) ==
    LET results == CASE name = "list" -> list(cls, callargs)
                     [] name = "get" -> get(cls, callargs)
                     [] OTHER -> change(cls, name, callargs)
    IN  {Run(r.events, r.exc) : r \in results}

\* Python's binding of handler(self, *args) to the parameters after self
CanBind(func, callargs) ==
    LET params == Tail(func.params)
        positional == SelectSeq(params, LAMBDA q : q.kind = "POSITIONAL_OR_KEYWORD")
        needed == SelectSeq(positional, LAMBDA q : ~q.hasDefault)
        keywords == SelectSeq(params, LAMBDA q : q.kind = "KEYWORD_ONLY" /\ ~q.hasDefault)
    IN  /\ Len(needed) <= Len(callargs) /\ Len(callargs) <= Len(positional)
        /\ keywords = <<>>

\* the body of the handler, once Python has bound the arguments
HandlerRuns(cls, sub_commands, func, callargs) ==
    IF ~CanBind(func, callargs) THEN {Run(<<>>, OtherException("TypeError"))}
    ELSE IF ~func._is_sub_command THEN help(cls, sub_commands)
    ELSE IF cls \in ShippedGroups THEN ShippedHandler(cls, func.__name__, callargs)
    ELSE ProbeHandler(func.__name__)

\* mutation of Called: the first argument is not passed on
Called_WithoutFirst(cls, sub_commands, func, callargs) ==
    LET passed == IF callargs = <<>> THEN <<>> ELSE Tail(callargs)
    IN  {Run(<<CallEv(func.__name__, passed)>> \o r.events, r.exc) :
            r \in HandlerRuns(cls, sub_commands, func, passed)}

\* run(), line 172: handler(self, *args)
Called(cls, sub_commands, func, callargs) ==
    {Run(<<CallEv(func.__name__, callargs)>> \o r.events, r.exc) :
        r \in HandlerRuns(cls, sub_commands, func, callargs)}

(***************************************************************************)
(* The dispatcher: BaseCommand.__init__ and run.                           *)
(***************************************************************************)
FirstTokens ==
    {"help", "list", "get", "start", "stop", "restart", "open", "close", "link",
     "abcd-1234", "frobnicate"}
RestTokens == {"abcd-1234", "true", "x"}
RequestIds == {"r1", "r2"}
Surfaces == {"message", "button"}

SeqsUpTo(S, n) == UNION {[1..k -> S] : k \in 0..n}

\* the token lists a transport adapter hands over: the text after the group
\* name, split on whitespace
TokenLists ==
    {<<>>} \cup {<<first>> \o rest :
                    first \in FirstTokens, rest \in SeqsUpTo(RestTokens, MaxArgs)}

NoInstance == [cls |-> None, _args |-> <<>>, _request_id |-> None]

Init ==
    /\ _sub_commands = [cls \in Groups |-> init_subclass(cls)._sub_commands]
    /\ _default_command = [cls \in Groups |-> init_subclass(cls)._default_command]
    /\ _optional_command = [cls \in Groups |-> init_subclass(cls)._optional_command]
    /\ rebuilt = None
    /\ pc = [d \in Dispatches |-> "idle"]
    /\ self = [d \in Dispatches |-> NoInstance]
    /\ surface = [d \in Dispatches |-> None]
    /\ action = [d \in Dispatches |-> None]
    /\ args = [d \in Dispatches |-> <<>>]
    /\ raised = [d \in Dispatches |-> NoException]
    /\ handler_exc = [d \in Dispatches |-> NoException]
    /\ trace = [d \in Dispatches |-> <<>>]
    /\ call = None
    /\ cb_pc = "idle"
    /\ cb_result = [value |-> None, error |-> None]
    /\ cb_raised = None
    /\ bot_calls = <<>>

\* mutation of Dispatch: the instance attributes are kept in one place that
\* all dispatches share
Dispatch_SharedInstance(d, cls, tokens, rid, from) ==
    /\ pc[d] = "idle"
    /\ self' = [e \in Dispatches |-> [cls |-> cls, _args |-> tokens, _request_id |-> rid]]
    /\ surface' = [surface EXCEPT ![d] = from]
    /\ pc' = [pc EXCEPT ![d] = "resolve"]
    /\ rebuilt' = None
    /\ UNCHANGED callbackVars
    /\ UNCHANGED <<classVars, action, args, raised, handler_exc, trace>>

\* BaseCommand.__init__, then the call of run()
Dispatch(d, cls, tokens, rid, from) ==
    /\ pc[d] = "idle"
    /\ self' = [self EXCEPT ![d] = [cls |-> cls, _args |-> tokens, _request_id |-> rid]]
    /\ surface' = [surface EXCEPT ![d] = from]
    /\ pc' = [pc EXCEPT ![d] = "resolve"]
    /\ rebuilt' = None
    /\ UNCHANGED callbackVars
    /\ UNCHANGED <<classVars, action, args, raised, handler_exc, trace>>

\* mutation of Resolved: the explicit action is not looked up
Resolved_Unchecked(sub_commands, default_command, optional_command, tokens) ==
    IF tokens = <<>>
    THEN [action |-> default_command, args |-> <<>>, error |-> None]
    ELSE IF Len(tokens) = 1 /\ ~Has(sub_commands, tokens[1])
    THEN [action |-> optional_command, args |-> tokens, error |-> None]
    ELSE [action |-> Head(tokens), args |-> Tail(tokens), error |-> None]

\* mutation of Resolved: no tokens go to the optional action
Resolved_EmptyToOptional(sub_commands, default_command, optional_command, tokens) ==
    IF tokens = <<>>
    THEN [action |-> optional_command, args |-> <<>>, error |-> None]
    ELSE IF Len(tokens) = 1 /\ ~Has(sub_commands, tokens[1])
    THEN [action |-> optional_command, args |-> tokens, error |-> None]
    ELSE [action |-> Head(tokens), args |-> Tail(tokens),
          error |-> IF ~Has(sub_commands, Head(tokens)) THEN "wrong action" ELSE None]

\* mutation of Resolved: the bare token is not passed to the optional action
Resolved_OptionalWithoutToken(sub_commands, default_command, optional_command, tokens) ==
    IF tokens = <<>>
    THEN [action |-> default_command, args |-> <<>>, error |-> None]
    ELSE IF Len(tokens) = 1 /\ ~Has(sub_commands, tokens[1])
    THEN [action |-> optional_command, args |-> <<>>, error |-> None]
    ELSE [action |-> Head(tokens), args |-> Tail(tokens),
          error |-> IF ~Has(sub_commands, Head(tokens)) THEN "wrong action" ELSE None]

\* mutation of Resolved: a single token always goes to the optional action
Resolved_SingleToOptional(sub_commands, default_command, optional_command, tokens) ==
    IF tokens = <<>>
    THEN [action |-> default_command, args |-> <<>>, error |-> None]
    ELSE IF Len(tokens) = 1
    THEN [action |-> optional_command, args |-> tokens, error |-> None]
    ELSE [action |-> Head(tokens), args |-> Tail(tokens),
          error |-> IF ~Has(sub_commands, Head(tokens)) THEN "wrong action" ELSE None]

\* run(), lines 147-157: which action, which arguments
Resolved(sub_commands, default_command, optional_command, tokens) ==
    IF tokens = <<>>
    THEN [action |-> default_command, args |-> <<>>, error |-> None]
    ELSE IF Len(tokens) = 1 /\ ~Has(sub_commands, tokens[1])
    THEN [action |-> optional_command, args |-> tokens, error |-> None]
    ELSE [action |-> Head(tokens), args |-> Tail(tokens),
          error |-> IF ~Has(sub_commands, Head(tokens)) THEN "wrong action" ELSE None]

\* mutation of ResolutionError: a missing action is not reported
ResolutionError_MissingAccepted(r) ==
    IF r.error # None THEN r.error ELSE None

\* run(), lines 155-161: the error that ends resolution, if any
ResolutionError(r) ==
    IF r.error # None THEN r.error
    ELSE IF ~Truthy(r.action) THEN "action required"
    ELSE None

Resolve(d) ==
    /\ pc[d] = "resolve"
    /\ LET cls == self[d].cls
           r == Resolved(_sub_commands[cls], _default_command[cls],
                         _optional_command[cls], self[d]._args)
           error == ResolutionError(r)
       IN  /\ action' = [action EXCEPT ![d] = r.action]
           /\ args' = [args EXCEPT ![d] = r.args]
           /\ IF error # None
              THEN /\ trace' = [trace EXCEPT ![d] =
                                   @ \o reply_error(self[d]._request_id, error, FALSE)]
                   /\ pc' = [pc EXCEPT ![d] = "returned"]
              ELSE /\ trace' = trace
                   /\ pc' = [pc EXCEPT ![d] = "validate"]
    /\ UNCHANGED callbackVars
    /\ UNCHANGED <<classVars, rebuilt, self, surface, raised, handler_exc>>

\* run(), lines 163-167: the handler lookup and the arity check
required_handler_args(handler_args) == SelectSeq(handler_args, LAMBDA a : ~a.optional)

\* mutation of WrongArgsCount: the lower bound of the arity check is lost
WrongArgsCount_NoLowerBound(handler_args, callargs) ==
    Len(callargs) > Len(handler_args)

\* mutation of WrongArgsCount: the upper bound of the arity check is lost
WrongArgsCount_NoUpperBound(handler_args, callargs) ==
    Len(callargs) < Len(required_handler_args(handler_args))

WrongArgsCount(handler_args, callargs) ==
    \/ Len(callargs) < Len(required_handler_args(handler_args))
    \/ Len(callargs) > Len(handler_args)

WrongArgsText(handler_args) ==
    "wrong args count (expected " \o Str(Len(required_handler_args(handler_args))) \o ")"

Validate(d) ==
    /\ pc[d] = "validate"
    /\ LET cls == self[d].cls
       IN  IF ~Has(_sub_commands[cls], action[d])
           THEN \* self._sub_commands[action] raises KeyError
                /\ raised' = [raised EXCEPT ![d] = OtherException("KeyError")]
                /\ pc' = [pc EXCEPT ![d] = "raised"]
                /\ trace' = trace
           ELSE LET handler_args == Lookup(_sub_commands[cls], action[d]).args
                IN  /\ raised' = raised
                    /\ IF WrongArgsCount(handler_args, args[d])
                       THEN /\ trace' = [trace EXCEPT ![d] = @ \o reply_error(
                                   self[d]._request_id, WrongArgsText(handler_args), FALSE)]
                            /\ pc' = [pc EXCEPT ![d] = "returned"]
                       ELSE /\ trace' = trace
                            /\ pc' = [pc EXCEPT ![d] = "invoke"]
    /\ UNCHANGED callbackVars
    /\ UNCHANGED <<classVars, rebuilt, self, surface, action, args, handler_exc>>

\* repr() of a list of str, as logger.info's %s prints args
Repr(tokens) ==
    "[" \o Join(", ", [i \in 1..Len(tokens) |-> "'" \o tokens[i] \o "'"]) \o "]"

\* run(), line 169
InfoRecord(rid, act, callargs) ==
    LogEv("info", <<rid, act>> \o callargs,
          "[" \o rid \o "] action '" \o act \o "', args " \o Repr(callargs))

\* mutation of Catches: the except clause takes every exception
Catches_Any(exc) == exc.type # None

\* run(), line 173: except AppException as err
Catches(exc) == exc.type = "AppException"

\* run(), lines 169-174: the call of the handler and the except clause
Invoke(d) ==
    /\ pc[d] = "invoke"
    /\ LET cls == self[d].cls
           rid == self[d]._request_id
           handler == Lookup(_sub_commands[cls], action[d]).func
       IN  \E run \in Called(cls, _sub_commands[cls], handler, args[d]) :
              LET called == <<InfoRecord(rid, action[d], args[d])>> \o run.events
              IN  /\ handler_exc' = [handler_exc EXCEPT ![d] = run.exc]
                  /\ IF Catches(run.exc)
                     THEN /\ trace' = [trace EXCEPT ![d] =
                                          @ \o called \o reply_error(rid, format(run.exc), FALSE)]
                          /\ pc' = [pc EXCEPT ![d] = "returned"]
                          /\ raised' = raised
                     ELSE IF run.exc.type = None
                     THEN /\ trace' = [trace EXCEPT ![d] = @ \o called]
                          /\ pc' = [pc EXCEPT ![d] = "returned"]
                          /\ raised' = raised
                     ELSE /\ trace' = [trace EXCEPT ![d] = @ \o called]
                          /\ pc' = [pc EXCEPT ![d] = "raised"]
                          /\ raised' = [raised EXCEPT ![d] = run.exc]
    /\ UNCHANGED callbackVars
    /\ UNCHANGED <<classVars, rebuilt, self, surface, action, args>>

\* run() has returned or raised: the instance and its locals are dropped
Finish(d) ==
    /\ pc[d] \in {"returned", "raised"}
    /\ pc' = [pc EXCEPT ![d] = "idle"]
    /\ self' = [self EXCEPT ![d] = NoInstance]
    /\ surface' = [surface EXCEPT ![d] = None]
    /\ action' = [action EXCEPT ![d] = None]
    /\ args' = [args EXCEPT ![d] = <<>>]
    /\ raised' = [raised EXCEPT ![d] = NoException]
    /\ handler_exc' = [handler_exc EXCEPT ![d] = NoException]
    /\ trace' = [trace EXCEPT ![d] = <<>>]
    /\ UNCHANGED callbackVars
    /\ UNCHANGED <<classVars, rebuilt>>

\* the transport adapter receives a message or a button press for a group
Receive(d) ==
    /\ pc[d] = "idle"
    /\ \E cls \in Groups, tokens \in TokenLists, rid \in RequestIds, from \in Surfaces :
          Dispatch(d, cls, tokens, rid, from)

\* inspect.getmembers(cls), filtered: the registered members as a list, in
\* any order
GetMembers(cls) ==
    {members \in [1..Cardinality(MemberSet(cls)) -> MemberSet(cls)] :
        \A i, j \in 1..Cardinality(MemberSet(cls)) : members[i] = members[j] => i = j}

\* mutation of SortMembers: the members stay in the order they came in
SortMembers_AsGiven(members, methods) == members

\* members.sort(key=lambda pair: methods.index(pair[0])), on a list: a
\* stable sort
RECURSIVE SortMembers(_, _)
SortMembers(members, methods) ==
    IF members = <<>> THEN <<>>
    ELSE LET first == Head(members)
             rest == SortMembers(Tail(members), methods)
             key(pair) == Index(methods, pair[1])
         IN  SelectSeq(rest, LAMBDA q : key(q) < key(first))
                 \o <<first>>
                 \o SelectSeq(rest, LAMBDA q : key(q) >= key(first))

\* __init_subclass__ on the members as inspect returned them
Build(cls, members) ==
    RegisterAll([_sub_commands |-> <<Entry("help", HelpFunction, <<>>)>>,
                 _default_command |-> None,
                 _optional_command |-> None],
                SortMembers(members, DefNames(cls)))

\* the class statement of a group runs again (the module is loaded anew):
\* register decorates its methods and __init_subclass__ builds its metadata
Rebuild(cls) ==
    /\ \A d \in Dispatches : pc[d] = "idle"
    /\ \E members \in GetMembers(cls) :
          LET meta == Build(cls, members)
          IN  /\ _sub_commands' = [_sub_commands EXCEPT ![cls] = meta._sub_commands]
              /\ _default_command' = [_default_command EXCEPT ![cls] = meta._default_command]
              /\ _optional_command' =
                    [_optional_command EXCEPT ![cls] = meta._optional_command]
    /\ rebuilt' = cls
    /\ UNCHANGED callbackVars
    /\ UNCHANGED <<pc, self, surface, action, args, raised, handler_exc, trace>>

\* one dispatch at a time
Next ==
    \/ \E cls \in Groups : Rebuild(cls)
    \/ Receive(1)
    \/ Resolve(1)
    \/ Validate(1)
    \/ Invoke(1)
    \/ Finish(1)

Spec == Init /\ [][Next]_vars

(***************************************************************************)
(* Dispatches in flight at the same time: the transport adapter runs every *)
(* handler call in its own thread, each on its own BaseCommand instance,   *)
(* and the steps of two dispatches interleave in any order.  The inputs    *)
(* are a few token lists that take every path of run().                    *)
(***************************************************************************)
ConcurrentGroups == {"vm", "nodef"}
ConcurrentTokens ==
    {<<>>, <<"help">>, <<"abcd-1234">>, <<"start", "abcd-1234">>,
     <<"start">>, <<"frobnicate", "x">>}

\* every request has a request id of its own
RequestIdOf(d) == IF d = 1 THEN "r1" ELSE "r2"

ReceiveConcurrently(d) ==
    /\ pc[d] = "idle"
    /\ \E cls \in ConcurrentGroups, tokens \in ConcurrentTokens :
          Dispatch(d, cls, tokens, RequestIdOf(d), "message")

NextConcurrent ==
    \E d \in Dispatches :
        \/ ReceiveConcurrently(d)
        \/ Resolve(d)
        \/ Validate(d)
        \/ Invoke(d)
        \/ Finish(d)

SpecConcurrent == Init /\ [][NextConcurrent]_vars

(***************************************************************************)
(* Properties.  They are stated on what a dispatch has done (its trace)    *)
(* and on the class metadata, for every group and token list of the model. *)
(***************************************************************************)
Finished(d) == pc[d] \in {"returned", "raised"}
Tokens(d) == self[d]._args
Cls(d) == self[d].cls

Calls(d) == OfKind(trace[d], "call")
Replies(d) == OfKind(trace[d], "reply")
Rpcs(d) == OfKind(trace[d], "rpc")

\* the reply that reports an error text: the warning sign, the quoted text
ErrorReply(text) == ReplyEv("U+26A0 '" \o text \o "'", NoMarkup, FALSE)

Registered(cls, name) == \E i \in 1..Len(_sub_commands[cls]) : _sub_commands[cls][i].key = name
ArgSpecs(cls, name) == Lookup(_sub_commands[cls], name).args
\* r and t of an action
NRequired(cls, name) ==
    Cardinality({i \in 1..Len(ArgSpecs(cls, name)) : ~ArgSpecs(cls, name)[i].optional})
NTotal(cls, name) == Len(ArgSpecs(cls, name))
ArityOk(cls, name, n) == NRequired(cls, name) <= n /\ n <= NTotal(cls, name)

\* C1: when the resolved action has r required and t total argument specs
\* and the resolved argument list is shorter than r or longer than t, the
\* dispatch ends with the one reply 'wrong args count (expected r)', no
\* handler is called and no resource-client call is made; vm ["start"]
\* reports 'expected 1'.
C1_ArityErrorNoHandler ==
    \A d \in Dispatches :
        /\ (Finished(d) /\ Registered(Cls(d), action[d])
                /\ ~ArityOk(Cls(d), action[d], Len(args[d])))
            => /\ Replies(d) = <<ErrorReply("wrong args count (expected "
                                   \o Str(NRequired(Cls(d), action[d])) \o ")")>>
               /\ Calls(d) = <<>>
               /\ Rpcs(d) = <<>>
               /\ pc[d] = "returned"
        /\ (Finished(d) /\ Cls(d) = "vm" /\ Tokens(d) = <<"start">>)
            => Replies(d) = <<ErrorReply("wrong args count (expected 1)")>>

\* a dispatch of a one-argument action with two arguments, more than t,
\* has ended
C1_Witness ==
    \E d \in Dispatches :
        /\ Finished(d) /\ Cls(d) = "vm" /\ Tokens(d) = <<"start", "abcd-1234", "x">>
        /\ NTotal("vm", "start") = 1
        /\ Len(Replies(d)) = 1

\* C2: with two or more tokens whose first is no registered action name, the
\* dispatch ends with the one reply 'wrong action' and calls no handler,
\* whatever default or optional action the group has.
C2_WrongActionNoHandler ==
    \A d \in Dispatches :
        (Finished(d) /\ Len(Tokens(d)) >= 2 /\ ~Registered(Cls(d), Tokens(d)[1]))
            => /\ Replies(d) = <<ErrorReply("wrong action")>>
               /\ Calls(d) = <<>>
               /\ Rpcs(d) = <<>>
               /\ pc[d] = "returned"

C2_Witness ==
    \E d \in Dispatches :
        /\ Finished(d) /\ Cls(d) = "vm" /\ Tokens(d) = <<"frobnicate", "x">>
        /\ Replies(d) = <<ErrorReply("wrong action")>>

ArityErrorReply(cls, name) ==
    ErrorReply("wrong args count (expected " \o Str(NRequired(cls, name)) \o ")")

\* C3, as stated: in every group with a default action, an empty token list
\* calls the default action, with no arguments.
C3_AsStated ==
    \A d \in Dispatches :
        (Finished(d) /\ Tokens(d) = <<>> /\ _default_command[Cls(d)] # None)
            => Calls(d) = <<CallEv(_default_command[Cls(d)], <<>>)>>

\* C3, amended: in every group with a default action, an empty token list
\* resolves to the default action with no arguments; the action is called,
\* once, with no arguments, and no other handler is, when it requires no
\* argument (in vm, pg and func this is list()); when it requires one, the
\* dispatch ends with the arity error and calls no handler.
C3_DefaultOnNoTokens ==
    \A d \in Dispatches :
        (Finished(d) /\ Tokens(d) = <<>> /\ _default_command[Cls(d)] # None)
            => LET default == _default_command[Cls(d)]
               IN  /\ action[d] = default
                   /\ args[d] = <<>>
                   /\ IF NRequired(Cls(d), default) = 0
                      THEN Calls(d) = <<CallEv(default, <<>>)>>
                      ELSE /\ Calls(d) = <<>>
                           /\ Replies(d) = <<ArityErrorReply(Cls(d), default)>>
                   /\ Cls(d) \in ShippedGroups => Calls(d) = <<CallEv("list", <<>>)>>

C3_Witness ==
    \E d \in Dispatches :
        /\ Finished(d) /\ Cls(d) = "vm" /\ Tokens(d) = <<>>
        /\ Calls(d) = <<CallEv("list", <<>>)>>

\* C4: in every group with an optional action, one token x that is no
\* registered action name calls the optional action, once, with the one
\* argument x, and no other handler, when the action accepts one argument;
\* otherwise no handler is called.
C4_OptionalOnBareToken ==
    \A d \in Dispatches :
        /\ (Finished(d) /\ Len(Tokens(d)) = 1 /\ ~Registered(Cls(d), Tokens(d)[1])
                /\ _optional_command[Cls(d)] # None)
            => LET optional == _optional_command[Cls(d)]
               IN  /\ action[d] = optional
                   /\ args[d] = <<Tokens(d)[1]>>
                   /\ IF ArityOk(Cls(d), optional, 1)
                      THEN Calls(d) = <<CallEv(optional, <<Tokens(d)[1]>>)>>
                      ELSE Calls(d) = <<>>
        /\ (Finished(d) /\ Cls(d) \in ShippedGroups /\ Tokens(d) = <<"abcd-1234">>)
            => Calls(d) = <<CallEv("get", <<"abcd-1234">>)>>

C4_Witness ==
    \E d \in Dispatches :
        /\ Finished(d) /\ Cls(d) = "vm" /\ Tokens(d) = <<"abcd-1234">>
        /\ Calls(d) = <<CallEv("get", <<"abcd-1234">>)>>
        /\ Len(Replies(d)) = 1

\* C5: when the first token is a registered action name, the resolved action
\* is that name and the arguments are the remaining tokens in their order; a
\* single token that is a registered action name is that action with no
\* arguments, and never an argument of the optional action.
C5_ExplicitActionWins ==
    \A d \in Dispatches :
        /\ (pc[d] \notin {"idle", "resolve"} /\ Tokens(d) # <<>>
                /\ Registered(Cls(d), Tokens(d)[1]))
            => /\ action[d] = Tokens(d)[1]
               /\ args[d] = Tail(Tokens(d))
               /\ \A i \in 1..Len(Calls(d)) :
                     Calls(d)[i] = CallEv(Tokens(d)[1], Tail(Tokens(d)))
        /\ (Finished(d) /\ Cls(d) \in ShippedGroups /\ Tokens(d) = <<"list", "true">>)
            => Calls(d) = <<CallEv("list", <<"true">>)>>
        /\ (Finished(d) /\ Cls(d) = "vm" /\ Tokens(d) = <<"start", "abcd-1234">>)
            => Calls(d) = <<CallEv("start", <<"abcd-1234">>)>>

\* the single token "list", which names an action, has been dispatched in a
\* group whose optional action is get
C5_Witness ==
    \E d \in Dispatches :
        /\ Finished(d) /\ Cls(d) = "vm" /\ Tokens(d) = <<"list">>
        /\ _optional_command["vm"] = "get"
        /\ Calls(d) = <<CallEv("list", <<>>)>>

\* C6: in every group without a default action, an empty token list ends
\* with the one reply 'action required' and calls no handler.
C6_ActionRequired ==
    \A d \in Dispatches :
        (Finished(d) /\ Tokens(d) = <<>> /\ _default_command[Cls(d)] = None)
            => /\ Replies(d) = <<ErrorReply("action required")>>
               /\ Calls(d) = <<>>
               /\ Rpcs(d) = <<>>
               /\ pc[d] = "returned"

C6_Witness ==
    \E d \in Dispatches :
        /\ Finished(d) /\ Tokens(d) = <<>> /\ _default_command[Cls(d)] = None
        /\ Len(Replies(d)) = 1

\* C7: in every group without an optional action, one token that is no
\* registered action name ends with the one reply 'wrong action' and calls
\* no handler.
C7_WrongActionWithoutOptional ==
    \A d \in Dispatches :
        (Finished(d) /\ Len(Tokens(d)) = 1 /\ ~Registered(Cls(d), Tokens(d)[1])
            /\ _optional_command[Cls(d)] = None)
            => /\ Replies(d) = <<ErrorReply("wrong action")>>
               /\ Calls(d) = <<>>

\* C8: in every group the token list ["help"] resolves to the built-in help
\* action, never to the optional action or an error, and the one reply is
\* fresh (edit=False) and is the generated help text.
C8_HelpAlwaysResolves ==
    \A d \in Dispatches :
        (Finished(d) /\ Tokens(d) = <<"help">>)
            => /\ action[d] = "help" /\ args[d] = <<>>
               /\ Calls(d) = <<CallEv("help", <<>>)>>
               /\ Len(Replies(d)) = 1
               /\ Replies(d)[1].edit = FALSE
               /\ Replies(d)[1].text = build_help(Cls(d), _sub_commands[Cls(d)])
               /\ pc[d] = "returned"
               /\ Cls(d) = "pg" =>
                     Replies(d)[1].text =
                         "/pg - postgres clusters management\n\n"
                         \o "'/pg help' - show commands\n"
                         \o "'/pg [list] [inline:bool]' - show pg clusters with their status\n"
                         \o "'/pg [get] <id_or_name:str>' - show actions for specified pg cluster\n"
                         \o "'/pg start <id_or_name:str>' - start the cluster\n"
                         \o "'/pg stop <id_or_name:str>' - stop the cluster"

\* help has been dispatched in a group with neither a default nor an
\* optional action
C8_Witness ==
    \E d \in Dispatches :
        /\ Finished(d) /\ Tokens(d) = <<"help">>
        /\ _default_command[Cls(d)] = None /\ _optional_command[Cls(d)] = None
        /\ Len(Replies(d)) = 1

\* the argument tokens of a token list: what follows the action name, or
\* the whole list when it does not start with one
SuppliedArgs(cls, tokens) ==
    IF tokens # <<>> /\ Registered(cls, tokens[1]) THEN Tail(tokens) ELSE tokens

\* C9: when resolution succeeds and r <= len(args) <= t, the resolved
\* handler is called exactly once, with exactly the supplied argument
\* tokens: the same count, the same order, each the unchanged string.
C9_CalledOnceWithTokens ==
    \A d \in Dispatches :
        (Finished(d) /\ Registered(Cls(d), action[d])
            /\ ArityOk(Cls(d), action[d], Len(args[d])))
            => /\ Calls(d) = <<CallEv(action[d], SuppliedArgs(Cls(d), Tokens(d)))>>
               /\ args[d] = SuppliedArgs(Cls(d), Tokens(d))

\* a two-argument action has been called with two different tokens
C9_Witness ==
    \E d \in Dispatches :
        /\ Finished(d) /\ Cls(d) = "bare" /\ Tokens(d) = <<"link", "abcd-1234", "x">>
        /\ Calls(d) = <<CallEv("link", <<"abcd-1234", "x">>)>>

\* C10: within a dispatch, resolution comes before arity validation and
\* that before the call: nothing has happened while run() resolves; the
\* arity check runs on a registered action; the handler is called only for a
\* registered action whose arity check passed; an arity error is reported
\* only for a registered action, and an input with an unregistered action
\* name and any number of arguments gets the resolution error.
C10_PhaseOrder ==
    \A d \in Dispatches :
        /\ pc[d] = "resolve" => (trace[d] = <<>> /\ action[d] = None)
        /\ pc[d] = "validate" => (trace[d] = <<>> /\ Registered(Cls(d), action[d]))
        /\ pc[d] = "invoke" =>
              /\ trace[d] = <<>>
              /\ Registered(Cls(d), action[d])
              /\ ArityOk(Cls(d), action[d], Len(args[d]))
        /\ Calls(d) # <<>> =>
              /\ Finished(d)
              /\ Registered(Cls(d), action[d])
              /\ ArityOk(Cls(d), action[d], Len(args[d]))
        /\ (\E i \in 1..Len(Replies(d)) :
                \E n \in 0..9 : Replies(d)[i] =
                    ErrorReply("wrong args count (expected " \o Str(n) \o ")"))
              => Registered(Cls(d), action[d])
        /\ (Finished(d) /\ Len(Tokens(d)) >= 2 /\ ~Registered(Cls(d), Tokens(d)[1]))
              => Replies(d) = <<ErrorReply("wrong action")>>

\* an input with an unregistered action name and more arguments than any
\* action of the group takes has been answered
C10_Witness ==
    \E d \in Dispatches :
        /\ Finished(d) /\ Cls(d) = "vm" /\ Tokens(d) = <<"frobnicate", "x", "true">>
        /\ \A i \in 1..Len(_sub_commands["vm"]) : Len(_sub_commands["vm"][i].args) < 2
        /\ Len(Replies(d)) = 1

\* the handler of the dispatch was called and ended with a domain error
DomainError(d) == Finished(d) /\ handler_exc[d].type = "AppException"

\* the handler of the dispatch was called and ended with another exception
Defect(d) == Finished(d) /\ handler_exc[d].type \notin {None, "AppException"}

IsWarning(reply) == StartsWith(reply.text, "U+26A0 '")

\* C11: when the called handler raises an AppException, run() catches it:
\* run() returns, nothing is raised, the handler was called once and not
\* again, and the dispatch delivers exactly one reply, the last thing it
\* does, which is the warning sign and the quoted description of the error:
\* the status name and details of the gRPC error it wraps, else its text.
C11_DomainErrorCaught ==
    \A d \in Dispatches :
        DomainError(d) =>
            LET description ==
                    IF handler_exc[d].code # None
                    THEN handler_exc[d].code \o ": " \o handler_exc[d].details
                    ELSE handler_exc[d].text
            IN  /\ pc[d] = "returned"
                /\ raised[d] = NoException
                /\ Len(Calls(d)) = 1
                /\ Len(Replies(d)) = 1
                /\ Replies(d)[1].text = "U+26A0 '" \o description \o "'"
                /\ trace[d][Len(trace[d])].kind = "reply"

\* the cloud was unavailable when vm list asked it, and the user was told
C11_Witness ==
    \E d \in Dispatches :
        /\ DomainError(d) /\ Cls(d) = "vm" /\ Tokens(d) = <<"list">>
        /\ handler_exc[d].code = "UNAVAILABLE"
        /\ Replies(d) = <<ErrorReply("UNAVAILABLE: upstream said no")>>

\* C12: run() catches AppException and nothing else: when the called handler
\* raises an exception of another class, that exception leaves run(), and
\* the dispatch delivers no error reply; an AppException never leaves run().
C12_OtherExceptionsPropagate ==
    \A d \in Dispatches :
        /\ Defect(d) =>
              /\ pc[d] = "raised"
              /\ raised[d] = handler_exc[d]
              /\ \A i \in 1..Len(Replies(d)) : ~IsWarning(Replies(d)[i])
        /\ pc[d] = "raised" => raised[d].type \notin {None, "AppException"}
        /\ pc[d] = "returned" => raised[d] = NoException

\* a TypeError raised inside the pg get handler has left run()
C12_Witness ==
    \E d \in Dispatches :
        /\ Defect(d) /\ Cls(d) = "pg" /\ action[d] = "get"
        /\ raised[d].type = "TypeError"
        /\ Replies(d) = <<>>

\* C13: in every dispatch, of any group, with any token list and whatever
\* the resource client answers, the reply channel is called at most once: a
\* dispatch never sends two replies, and a dispatch whose handler failed
\* sends no success reply before the error reply.
C13_AtMostOneReply ==
    \A d \in Dispatches :
        /\ Len(Replies(d)) <= 1
        /\ DomainError(d) => \A i \in 1..Len(Replies(d)) : IsWarning(Replies(d)[i])

\* vm start found the instance, the Start call failed, and one reply was sent
C13_Witness ==
    \E d \in Dispatches :
        /\ DomainError(d) /\ Cls(d) = "vm" /\ action[d] = "start"
        /\ Len(Rpcs(d)) = 2 /\ Rpcs(d)[2].who = "Start"
        /\ Len(Replies(d)) = 1

\* C14: the edit flag of every reply of a dispatch, error replies and handler
\* replies alike, is decided by what triggered the dispatch: FALSE for a
\* typed message, TRUE for a button press.
C14_EditBySurface ==
    \A d \in Dispatches :
        \A i \in 1..Len(Replies(d)) :
            Replies(d)[i].edit = (surface[d] = "button")

\* the three kinds of error run() handles, and the message of each
ResolutionFailed(d) == Finished(d) /\ ~Registered(Cls(d), action[d])
ArityFailed(d) ==
    Finished(d) /\ Registered(Cls(d), action[d])
        /\ ~ArityOk(Cls(d), action[d], Len(args[d]))

HandledError(d) == ResolutionFailed(d) \/ ArityFailed(d) \/ DomainError(d)

HandledErrorText(d) ==
    IF ResolutionFailed(d)
    THEN IF Len(Tokens(d)) >= 2 \/ (Tokens(d) # <<>> /\ Registered(Cls(d), Tokens(d)[1]))
         THEN "wrong action" ELSE "action required"
    ELSE IF ArityFailed(d)
    THEN "wrong args count (expected " \o Str(NRequired(Cls(d), action[d])) \o ")"
    ELSE IF handler_exc[d].code # None
    THEN handler_exc[d].code \o ": " \o handler_exc[d].details
    ELSE handler_exc[d].text

\* C15: a resolution error, an arity error and a caught domain error are
\* delivered the same way: the dispatch's one reply is a single string, the
\* warning sign followed by the quoted message, with no keyboard, and run()
\* returns without raising.
C15_UniformErrorPath ==
    \A d \in Dispatches :
        HandledError(d) =>
            /\ Replies(d) = <<ReplyEv("U+26A0 '" \o HandledErrorText(d) \o "'",
                                       NoMarkup, FALSE)>>
            /\ trace[d][Len(trace[d])].kind = "reply"
            /\ pc[d] = "returned"
            /\ raised[d] = NoException

\* a handler of the bare group raised a domain error of its own
C15_Witness ==
    \E d \in Dispatches :
        /\ DomainError(d) /\ Cls(d) = "bare" /\ action[d] = "start"
        /\ Replies(d) = <<ErrorReply("start failed")>>

\* C16: every handled error is logged with the request id of the dispatch
\* before its reply is delivered: each error reply of a trace directly
\* follows a warning log record that carries the request id of the dispatch
\* and the error's message, and a dispatch with a handled error has both.
C16_ErrorLoggedBeforeReply ==
    \A d \in Dispatches :
        /\ \A i \in 1..Len(trace[d]) :
              (trace[d][i].kind = "reply" /\ IsWarning(trace[d][i])) =>
                  /\ i > 1
                  /\ trace[d][i - 1].kind = "log"
                  /\ trace[d][i - 1].who = "warning"
                  /\ trace[d][i - 1].args[1] = self[d]._request_id
                  /\ trace[d][i].text = "U+26A0 '" \o trace[d][i - 1].args[2] \o "'"
        /\ HandledError(d) =>
              \E i \in 1..Len(trace[d]), j \in 1..Len(trace[d]) :
                 /\ i < j
                 /\ trace[d][i].kind = "log" /\ trace[d][i].who = "warning"
                 /\ trace[d][i].args = <<self[d]._request_id, HandledErrorText(d)>>
                 /\ trace[d][j].kind = "reply" /\ IsWarning(trace[d][j])

\* an arity error of the dispatch with request id r2 has been logged and told
C16_Witness ==
    \E d \in Dispatches :
        /\ ArityFailed(d) /\ self[d]._request_id = "r2"
        /\ Len(trace[d]) = 2
        /\ trace[d][1].text = "[r2] error: wrong args count (expected 1)"
        /\ trace[d][2].kind = "reply"

\* the registered handlers of a built group that were registered with
\* default=True, and those registered with optional=True
DefaultHandlers(cls) ==
    {_sub_commands[cls][i].key : i \in {j \in 1..Len(_sub_commands[cls]) :
                                          _sub_commands[cls][j].func._is_default}}
OptionalHandlers(cls) ==
    {_sub_commands[cls][i].key : i \in {j \in 1..Len(_sub_commands[cls]) :
                                          _sub_commands[cls][j].func._is_optional}}

\* C17: no group is built with two handlers registered with default=True,
\* nor with two registered with optional=True: the build of such a class
\* fails and the group does not exist.
C17_NoCompetingHandlers ==
    \A cls \in DOMAIN _sub_commands :
        /\ Cardinality(DefaultHandlers(cls)) <= 1
        /\ Cardinality(OptionalHandlers(cls)) <= 1

\* The class metadata is looked at for every class between dispatches, and
\* during a dispatch for the class of the dispatch.
ClassesInView ==
    IF \A d \in Dispatches : pc[d] = "idle" THEN DOMAIN _sub_commands
    ELSE {self[d].cls : d \in {e \in Dispatches : pc[e] # "idle"}}

\* C18: every built group has the key 'help' in its sub-command mapping,
\* no action name twice, one default action or none and one optional action
\* or none, each of them the name of a registered sub-command when set; the
\* handler lookup of run() never fails.
C18_GroupInvariants ==
    /\ \A cls \in ClassesInView :
          LET dict == _sub_commands[cls]
          IN  /\ Has(dict, "help")
              /\ \A i, j \in 1..Len(dict) : dict[i].key = dict[j].key => i = j
              /\ _default_command[cls] \in {None} \cup Keys(dict)
              /\ _optional_command[cls] \in {None} \cup Keys(dict)
    /\ \A d \in Dispatches : raised[d].type # "KeyError"

\* the group whose body names two default handlers and defines list twice
\* has one entry per name, and a dispatch has looked up its default action
C18_Witness ==
    \E d \in Dispatches :
        /\ Finished(d) /\ Cls(d) = "twins" /\ Tokens(d) = <<>>
        /\ Keys(_sub_commands["twins"]) = {"help", "list", "all", "get", "find"}
        /\ Len(_sub_commands["twins"]) = 5
        /\ action[d] = "all" /\ _default_command["twins"] = "all"
        /\ Calls(d) = <<CallEv("all", <<>>)>>

\* C19: in every built sub-command spec, once an argument spec is optional
\* every later argument spec of the same action is optional too.
C19_TrailingOptional ==
    \A cls \in DOMAIN _sub_commands :
        \A k \in 1..Len(_sub_commands[cls]) :
            LET specs == _sub_commands[cls][k].args
            IN  \A i, j \in 1..Len(specs) :
                    (i < j /\ specs[i].optional) => specs[j].optional

\* the names of the registered handlers of a class, in the order in which
\* the class body first defines them
DeclaredOrder(cls) ==
    LET body == ClassBody(cls)
        isHandler(i) ==
            /\ \A j \in 1..(i - 1) : body[j].name # body[i].name
            /\ \E k \in 1..Len(body) :
                  /\ body[k].name = body[i].name /\ body[k].registered
                  /\ \A l \in (k + 1)..Len(body) : body[l].name # body[k].name
        firsts == SelectSeq([i \in 1..Len(body) |-> i], isHandler)
    IN  [k \in 1..Len(firsts) |-> body[firsts[k]].name]

KeySeq(dict) == [i \in 1..Len(dict) |-> dict[i].key]

\* where a line starts in a text, 0 when the text does not hold it
LineStart(text, line) ==
    IF Occurrences(text, line) = {} THEN 0
    ELSE CHOOSE k \in Occurrences(text, line) : \A j \in Occurrences(text, line) : k <= j

VmHelpText ==
    "/vm - compute instances management\n\n"
        \o "'/vm help' - show commands\n"
        \o "'/vm [list] [inline:bool]' - show instances with their status and public ip\n"
        \o "'/vm [get] <id_or_name:str>' - show actions for specified instance\n"
        \o "'/vm start <id_or_name:str>' - start the instance\n"
        \o "'/vm stop <id_or_name:str>' - stop the instance\n"
        \o "'/vm restart <id_or_name:str>' - restart the instance"

\* C20: the sub-command mapping of every group is 'help' followed by the
\* registered handlers in the order the class body declares them, which is
\* not the alphabetical order; the help text is the summary line, an empty
\* line, and one line per sub-command of the mapping, in the mapping's
\* order; for vm the order is help, list, get, start, stop, restart.
C20_DeclarationOrder ==
    /\ \A cls \in ClassesInView :
          KeySeq(_sub_commands[cls]) = <<"help">> \o DeclaredOrder(cls)
    /\ "vm" \in ClassesInView =>
          KeySeq(_sub_commands["vm"]) = <<"help", "list", "get", "start", "stop", "restart">>
    /\ \A d \in Dispatches :
          (Finished(d) /\ Tokens(d) = <<"help">>) =>
              LET cls == Cls(d)
                  dict == _sub_commands[cls]
                  text == Replies(d)[1].text
                  line(i) == "'/" \o cls \o " " \o
                                 (IF dict[i].func._is_sub_command
                                  THEN dict[i].func._formatted_spec ELSE dict[i].key)
                                 \o "' - "
              IN  /\ Len(Replies(d)) = 1
                  /\ StartsWith(text, "/" \o cls \o " - " \o ClassDoc(cls) \o "\n\n'")
                  /\ Cardinality(Occurrences(text, "\n")) = Len(dict) + 1
                  /\ \A i \in 1..Len(dict) : LineStart(text, line(i)) > 0
                  /\ \A i, j \in 1..Len(dict) :
                        i < j => LineStart(text, line(i)) < LineStart(text, line(j))
                  /\ cls = "vm" => text = VmHelpText

\* the help of vm, whose declaration order is not alphabetical, was sent
C20_Witness ==
    \E d \in Dispatches :
        /\ Finished(d) /\ Cls(d) = "vm" /\ Tokens(d) = <<"help">>
        /\ DeclaredOrder("vm") = <<"list", "get", "start", "stop", "restart">>
        /\ Len(Replies(d)) = 1
        /\ LineStart(Replies(d)[1].text, "'/vm stop") < LineStart(Replies(d)[1].text, "'/vm restart")

\* the parameters of a handler after self, as the class body declares them
DeclaredParameters(cls, name) ==
    LET body == ClassBody(cls)
        k == CHOOSE i \in 1..Len(body) :
                 /\ body[i].name = name
                 /\ \A j \in (i + 1)..Len(body) : body[j].name # name
    IN  Tail(body[k].params)

UsageText(cls, name) == Lookup(_sub_commands[cls], name).func._formatted_spec

Mentions(text, word) == Occurrences(text, word) # {}

\* C21: a parameter of a handler whose name begins with an underscore is in
\* none of the action's argument specs, is not in its usage text and counts
\* neither for r nor for t of the arity check; the other parameters after
\* self are the argument specs, in declaration order, each optional iff it
\* has a default.
C21_UnderscoreParametersHidden ==
    /\ \A cls \in ClassesInView :
          \A k \in 2..Len(_sub_commands[cls]) :
              LET name == _sub_commands[cls][k].key
                  declared == DeclaredParameters(cls, name)
                  public == SelectSeq(declared, LAMBDA q : SubSeq(q.name, 1, 1) # "_")
                  specs == _sub_commands[cls][k].args
              IN  /\ Len(specs) = Len(public)
                  /\ \A i \in 1..Len(specs) :
                        /\ specs[i].optional = public[i].hasDefault
                        /\ StartsWith(public[i].name, specs[i].name)
                  /\ NTotal(cls, name) = Len(public)
                  /\ NRequired(cls, name) =
                        Len(SelectSeq(public, LAMBDA q : ~q.hasDefault))
    /\ "bare" \in ClassesInView =>
          /\ ArgSpecs("bare", "close") =
                <<[name |-> "id_or_name", type |-> "str", optional |-> FALSE]>>
          /\ UsageText("bare", "close") = "close <id_or_name:str>"
          /\ UsageText("bare", "open") = "open <id_or_name:str> [filter:str]"
    /\ \A d \in Dispatches :
          (Finished(d) /\ Cls(d) = "bare" /\ Len(Tokens(d)) >= 1) =>
              /\ Tokens(d)[1] = "close" =>
                    IF Len(Tokens(d)) = 2
                    THEN Calls(d) = <<CallEv("close", Tail(Tokens(d)))>>
                    ELSE Replies(d) = <<ErrorReply("wrong args count (expected 1)")>>
              /\ Tokens(d)[1] = "open" =>
                    IF Len(Tokens(d)) \in {2, 3}
                    THEN Calls(d) = <<CallEv("open", Tail(Tokens(d)))>>
                    ELSE Replies(d) = <<ErrorReply("wrong args count (expected 1)")>>

\* close, declared with id_or_name and _force, was sent two argument tokens
\* and the arity check counted one argument spec
C21_Witness ==
    \E d \in Dispatches :
        /\ Finished(d) /\ Cls(d) = "bare" /\ Tokens(d) = <<"close", "abcd-1234", "true">>
        /\ Len(DeclaredParameters("bare", "close")) = 2
        /\ NTotal("bare", "close") = 1
        /\ Calls(d) = <<>>
        /\ Replies(d) = <<ErrorReply("wrong args count (expected 1)")>>

\* the pieces of a text between the occurrences of a separator
RECURSIVE Split(_, _)
Split(text, sep) ==
    IF Occurrences(text, sep) = {} THEN <<text>>
    ELSE LET i == LineStart(text, sep)
         IN  <<SubSeq(text, 1, i - 1)>> \o Split(SubSeq(text, i + Len(sep), Len(text)), sep)

\* reading a token of a usage text by its brackets
Wrapped(token, open, close) ==
    /\ Len(token) >= 2
    /\ SubSeq(token, 1, 1) = open
    /\ SubSeq(token, Len(token), Len(token)) = close
Unwrapped(token) ==
    IF Wrapped(token, "[", "]") \/ Wrapped(token, "<", ">")
    THEN SubSeq(token, 2, Len(token) - 1) ELSE token

\* the usage text in a line of the help text: what stands between the
\* command of the group and the closing quote
UsageOfLine(cls, line) ==
    SubSeq(line, Len("'/" \o cls \o " ") + 1, LineStart(line, "' - ") - 1)

C23_BuildIdempotent ==
    [][rebuilt' # None =>
          /\ _sub_commands' = _sub_commands
          /\ _default_command' = _default_command
          /\ _optional_command' = _optional_command
          /\ build_help(rebuilt', _sub_commands'[rebuilt'])
                = build_help(rebuilt', _sub_commands[rebuilt'])]_vars

\* the group of vm, with five handlers, was built a second time
C23_Witness ==
    /\ rebuilt = "vm"
    /\ Cardinality(GetMembers("vm")) = 120
    /\ KeySeq(_sub_commands["vm"]) = <<"help", "list", "get", "start", "stop", "restart">>

\* what run() does when it runs alone: the traces a dispatch of these
\* tokens in this group can leave behind
AloneResolved(cls, tokens) ==
    Resolved(_sub_commands[cls], _default_command[cls], _optional_command[cls], tokens)

AloneTraces(cls, tokens, rid) ==
    LET r == AloneResolved(cls, tokens)
        entry == Lookup(_sub_commands[cls], r.action)
    IN  IF ResolutionError(r) # None
        THEN {reply_error(rid, ResolutionError(r), FALSE)}
        ELSE IF WrongArgsCount(entry.args, r.args)
        THEN {reply_error(rid, WrongArgsText(entry.args), FALSE)}
        ELSE {<<InfoRecord(rid, r.action, r.args)>> \o run.events
                  \o (IF run.exc.type = "AppException"
                      THEN reply_error(rid, format(run.exc), FALSE) ELSE <<>>) :
                 run \in Called(cls, _sub_commands[cls], entry.func, r.args)}

\* C24: a dispatch changes no shared state: no step changes the sub-command
\* mapping, the default or the optional action of any group, and the token
\* list of a dispatch in flight stays as it was given; so with the steps of
\* two dispatches interleaved in any order, of the same group or of two,
\* each dispatch resolves the action and arguments, and ends with a trace,
\* that it has when it runs alone.
C24_DispatchesIndependent ==
    /\ [][/\ _sub_commands' = _sub_commands
          /\ _default_command' = _default_command
          /\ _optional_command' = _optional_command
          /\ \A d \in Dispatches :
                (pc[d] # "idle" /\ pc'[d] # "idle") => self'[d] = self[d]]_vars
    /\ [](\A d \in Dispatches :
            /\ pc[d] \in {"validate", "invoke", "returned", "raised"} =>
                  /\ action[d] = AloneResolved(Cls(d), Tokens(d)).action
                  /\ args[d] = AloneResolved(Cls(d), Tokens(d)).args
            /\ Finished(d) =>
                  trace[d] \in AloneTraces(Cls(d), Tokens(d), self[d]._request_id))

\* two dispatches of the same group are in flight, the first has ended and
\* the second is about to call its handler
C24_Witness ==
    /\ Finished(1) /\ pc[2] = "invoke"
    /\ Cls(1) = "vm" /\ Cls(2) = "vm"
    /\ Tokens(1) = <<"abcd-1234">> /\ Tokens(2) = <<"start", "abcd-1234">>
    /\ Len(Replies(1)) = 1

\* the calls of the stub that get_single makes in a dispatch: the direct
\* lookup, and the list call with the name filter
IsLookup(e) == e.who = "Get"
IsSearch(e) == e.who = "List" /\ e.args[1] # None
NotFoundStatuses == {"NOT_FOUND", "INVALID_ARGUMENT"}

\* the direct lookup of the dispatch has failed with status
LookupFailed(d, statuses) ==
    /\ Finished(d) /\ Cls(d) \in ShippedGroups
    /\ Rpcs(d) # <<>> /\ IsLookup(Rpcs(d)[1]) /\ Rpcs(d)[1].text \in statuses

\* C25: in each of the three repos, get_single makes the list call of the
\* fallback search only after its direct lookup has failed with NOT_FOUND or
\* INVALID_ARGUMENT; when the lookup fails in another way, no further call
\* is made and the handler ends with an AppException.
C25_FallbackOnlyOnNotFound ==
    \A d \in Dispatches :
        /\ \A i \in 1..Len(Rpcs(d)) :
              IsSearch(Rpcs(d)[i]) =>
                  /\ i = 2
                  /\ IsLookup(Rpcs(d)[1])
                  /\ Rpcs(d)[1].text \in NotFoundStatuses
        /\ LookupFailed(d, {"UNAVAILABLE", "no status"}) =>
              /\ Len(Rpcs(d)) = 1
              /\ handler_exc[d].type = "AppException"
              /\ pc[d] = "returned"
              /\ Replies(d) = <<ErrorReply(IF Rpcs(d)[1].text = "no status" THEN ""
                                            ELSE "UNAVAILABLE: upstream said no")>>

\* the cloud was unavailable when func open looked the function up
C25_Witness ==
    \E d \in Dispatches :
        /\ LookupFailed(d, {"UNAVAILABLE"}) /\ Cls(d) = "func" /\ action[d] = "open"
        /\ Len(Rpcs(d)) = 1
        /\ Len(Replies(d)) = 1

\* C26: in vm, pg and func, when the direct lookup of a token fails with
\* NOT_FOUND or INVALID_ARGUMENT, get_single makes exactly one list call,
\* filtered by the name, and either returns its first match or raises a
\* domain error that is reported as a warning reply; nothing but a domain
\* error comes out of the handler, and run() returns.
C26_FallbackSearches ==
    \A d \in Dispatches :
        LookupFailed(d, NotFoundStatuses) =>
            /\ Len(SelectSeq(Rpcs(d), IsSearch)) = 1
            /\ Rpcs(d)[2].args[1] = "name=\"" \o Rpcs(d)[1].args[1] \o "\""
            /\ handler_exc[d].type \in {None, "AppException"}
            /\ pc[d] = "returned"
            /\ handler_exc[d].type = "AppException" =>
                  (Len(Replies(d)) = 1 /\ IsWarning(Replies(d)[1]))

\* C27: when the direct lookup fails with a not-found status and the list
\* search of the fallback returns nothing, the reply is the warning with the
\* repo's own description: 'instance not found', 'pg cluster not found',
\* 'function not found'.
C27_NotFoundText ==
    \A d \in Dispatches :
        (/\ LookupFailed(d, NotFoundStatuses)
         /\ Len(Rpcs(d)) = 2 /\ IsSearch(Rpcs(d)[2]) /\ Rpcs(d)[2].text = "OK"
         /\ handler_exc[d].type = "AppException")
            => Replies(d) = <<ErrorReply(NotFoundText(Cls(d)))>>

\* the state-changing calls of the stubs
IsMutation(e) == e.who \in {"Start", "Stop", "Restart", "SetAccessBindings"}

\* a state-changing handler of a shipped group was called
Changing(d) ==
    /\ Finished(d) /\ Cls(d) \in ShippedGroups /\ Calls(d) # <<>>
    /\ action[d] \in {"start", "stop", "restart", "open", "close"}

\* C28: in every dispatch of a state-changing handler (vm start, stop,
\* restart; pg start, stop; func open, close) the state-changing call of the
\* client is made at most once, as the last call, after a lookup in which no
\* call failed but a direct lookup that the search made up for, and with the
\* id of the resource the lookup returned (the token on a direct hit, the id
\* of the first match of the search otherwise); the success reply is sent
\* only after that call returned without error; when the lookup or the
\* change raises a domain error no success reply is sent.
C28_ChangeAfterLookup ==
    \A d \in Dispatches :
        Changing(d) =>
            LET rpcs == Rpcs(d)
                n == Len(rpcs)
                changes == SelectSeq(rpcs, IsMutation)
                successes == SelectSeq(Replies(d), LAMBDA e : ~IsWarning(e))
            IN  /\ Len(changes) <= 1
                /\ changes # <<>> =>
                      /\ IsMutation(rpcs[n])
                      /\ rpcs[n].who = MutatingRpc(Cls(d), action[d])
                      /\ IsLookup(rpcs[1])
                      /\ \A i \in 1..(n - 1) :
                            \/ rpcs[i].text = "OK"
                            \/ /\ i = 1 /\ rpcs[1].text \in NotFoundStatuses
                               /\ n > 2 /\ IsSearch(rpcs[2])
                      /\ rpcs[n].args[1] =
                            (IF rpcs[1].text = "OK" THEN args[d][1] ELSE "id-1")
                /\ successes # <<>> =>
                      /\ changes # <<>> /\ changes[1].text = "OK"
                      /\ Len(Replies(d)) = 1
                      /\ trace[d][Len(trace[d])].kind = "reply"
                /\ DomainError(d) => successes = <<>>
                /\ (n > 0 /\ ~IsMutation(rpcs[n]) /\ rpcs[n].text # "OK") => changes = <<>>

\* vm restart found the instance by its name and restarted it by its id
C28_Witness ==
    \E d \in Dispatches :
        /\ Changing(d) /\ Cls(d) = "vm" /\ Tokens(d) = <<"restart", "abcd-1234">>
        /\ Len(Rpcs(d)) = 3
        /\ Rpcs(d)[3] = RpcEv("Restart", "id-1", "OK")
        /\ Replies(d) = <<ReplyEv("instance 'abcd-1234' restarting", NoMarkup, TRUE)>>

\* C29: every dispatch from which run() returns has sent exactly one reply:
\* after a resolution error, an arity error or a caught domain error, after
\* the help action, and after every handler of vm, pg and func that
\* returned.
C29_ExactlyOneReply ==
    \A d \in Dispatches :
        (pc[d] = "returned"
            /\ (Cls(d) \in ShippedGroups \/ Calls(d) = <<>> \/ action[d] = "help"
                    \/ handler_exc[d].type = "AppException"))
            => Len(Replies(d)) = 1

\* pg list was told that there are no clusters, and answered
C29_Witness ==
    \E d \in Dispatches :
        /\ pc[d] = "returned" /\ Cls(d) = "pg" /\ Tokens(d) = <<>>
        /\ Rpcs(d) = <<RpcEv("List", None, "OK")>>
        /\ Len(Replies(d)) = 1
        /\ Replies(d)[1].text = "choose pg cluster"
        /\ Len(Replies(d)[1].markup) = 1

\* str.split() of a text in which the only whitespace is the space
Words(text) == SelectSeq(Split(text, " "), LAMBDA piece : piece # "")

\* the buttons of a keyboard, row after row
RECURSIVE Buttons(_)
Buttons(markup) == IF markup = <<>> THEN <<>> ELSE Head(markup) \o Buttons(Tail(markup))

ButtonActions == {"get", "list", "start", "stop", "restart", "open", "close"}

\* a command text that run() of the group takes to a handler
Pressable(cls, data) ==
    LET prefix == "/" \o cls
        tokens == Words(SubSeq(data, Len(prefix) + 1, Len(data)))
        r == Resolved(_sub_commands[cls], _default_command[cls],
                      _optional_command[cls], tokens)
    IN  /\ Len(data) >= Len(prefix) /\ SubSeq(data, 1, Len(prefix)) = prefix
        /\ data = format_command(cls, tokens)
        /\ tokens # <<>> /\ r.action = tokens[1]
        /\ ResolutionError(r) = None
        /\ r.action \in ButtonActions
        /\ Registered(cls, r.action)
        /\ ArityOk(cls, r.action, Len(r.args))

\* C30: every button of a keyboard that list or get of vm, pg or func sent
\* carries a command of its own group that, without the leading '/<group>'
\* and split on whitespace, resolves to a registered action among get, list,
\* start, stop, restart, open and close and passes the arity check.
C30_ButtonClosure ==
    \A d \in Dispatches :
        (Finished(d) /\ Cls(d) \in ShippedGroups) =>
            \A i \in 1..Len(Replies(d)) :
                LET buttons == Buttons(Replies(d)[i].markup)
                IN  \A k \in 1..Len(buttons) :
                        Pressable(Cls(d), buttons[k].callback_data)

\* pg get answered with the keyboard start, stop / refresh, and pg list with
\* one button per cluster and refresh
C30_Witness ==
    \E d \in Dispatches :
        /\ pc[d] = "returned" /\ Cls(d) = "pg" /\ Tokens(d) = <<"abcd-1234">>
        /\ Len(Replies(d)) = 1
        /\ LET buttons == Buttons(Replies(d)[1].markup)
           IN  /\ Len(buttons) = 3
               /\ buttons[1].callback_data = "/pg start abcd-1234"
               /\ buttons[2].callback_data = "/pg stop abcd-1234"
               /\ buttons[3].callback_data = "/pg get abcd-1234"
               /\ Words(" stop abcd-1234") = <<"stop", "abcd-1234">>

\* the actions whose handler was registered with both flags, with the default
\* flag, with the optional flag alone
BothHandlers(cls) ==
    {k \in Keys(_sub_commands[cls]) :
        LET func == Lookup(_sub_commands[cls], k).func
        IN  func._is_default /\ func._is_optional}
OptionalOnlyHandlers(cls) ==
    {k \in Keys(_sub_commands[cls]) :
        LET func == Lookup(_sub_commands[cls], k).func
        IN  ~func._is_default /\ func._is_optional}

\* C31: a handler registered with default=True and optional=True is never the
\* optional action of its group; it is the default action when no other
\* handler has the default flag; when no handler has the optional flag
\* alone, the group has no optional action, and a dispatch with a single
\* token that is no action name calls no handler and ends with the one
\* reply 'action required'.
C31_BothFlagsDefaultOnly ==
    /\ \A cls \in ClassesInView :
          \A name \in BothHandlers(cls) :
              /\ _optional_command[cls] # name
              /\ DefaultHandlers(cls) = {name} => _default_command[cls] = name
              /\ OptionalOnlyHandlers(cls) = {} => _optional_command[cls] = None
    /\ \A d \in Dispatches :
          (/\ Finished(d) /\ BothHandlers(Cls(d)) # {}
           /\ OptionalOnlyHandlers(Cls(d)) = {}
           /\ Len(Tokens(d)) = 1 /\ ~Has(_sub_commands[Cls(d)], Tokens(d)[1]))
              => /\ pc[d] = "returned"
                 /\ Calls(d) = <<>>
                 /\ Replies(d) = <<ErrorReply("action required")>>

\* get of the group both has both flags; the token abcd-1234 alone was
\* answered with 'action required'
C31_Witness ==
    \E d \in Dispatches :
        /\ Finished(d) /\ Cls(d) = "both" /\ Tokens(d) = <<"abcd-1234">>
        /\ BothHandlers("both") = {"get"}
        /\ _default_command["both"] = "get"
        /\ _optional_command["both"] = None
        /\ Calls(d) = <<>>
        /\ Replies(d) = <<ErrorReply("action required")>>

(***************************************************************************)
(* main.py: callback_query, the handler of the buttons of the bot that     *)
(* main.py runs, and the helpers get_vm .. close_func it calls.  The       *)
(* Russian texts are written in Latin letters, the pictographs as their    *)
(* code points.                                                            *)
(***************************************************************************)
\* the cmd values callback_query has a branch for
Getters == {"vm", "cluster", "func"}
Changers ==
    {"vm-start", "vm-stop", "vm-restart", "cluster-start", "cluster-stop",
     "func-open", "func-close"}
CallbackCmds == Getters \cup Changers

\* call.data: what the keyboards of main.py carry ('<cmd>:<id>', and '1:1',
\* '2:1' of the keyboard of the test command), and texts that are not of the
\* form 'cmd:arg'
CallbackArgs == {"abcd-1234", "1"}
CallbackData ==
    {cmd \o ":" \o arg : cmd \in CallbackCmds \cup {"1", "2"}, arg \in CallbackArgs}
        \cup {"vm", "vm:abcd:1234"}

\* what the call of the cloud client ends with: a response, or a
\* grpc.RpcError that has details() (a text, the empty text or None) or has
\* not, and then has args
RpcOutcome(ok, hasDetails, details, eargs) ==
    [ok |-> ok, hasDetails |-> hasDetails, details |-> details, args |-> eargs]
CloudOutcomes ==
    { RpcOutcome(TRUE, FALSE, None, <<>>),
      RpcOutcome(FALSE, TRUE, "not found", <<>>),
      RpcOutcome(FALSE, TRUE, "", <<>>),
      RpcOutcome(FALSE, TRUE, None, <<>>),
      RpcOutcome(FALSE, FALSE, None, <<"boom">>),
      RpcOutcome(FALSE, FALSE, None, <<>>) }

\* json.dumps of a tuple of strings
JsonDumps(eargs) ==
    "[" \o Join(", ", [i \in 1..Len(eargs) |-> "\"" \o eargs[i] \o "\""]) \o "]"

\* the except clause of the helpers
ErrorOf(outcome) ==
    IF outcome.hasDetails THEN outcome.details ELSE JsonDumps(outcome.args)

NameOf(cmd) ==
    CASE cmd = "vm" -> "vm-1"
      [] cmd = "cluster" -> "pg-1"
      [] cmd = "func" -> "func-1"

\* get_vm / get_cluster / get_func: (response, None) or (None, error); of
\* the response the handler reads the name only.
\* start_vm .. close_func: None, or the error
Helper(cmd, outcome) ==
    IF outcome.ok
    THEN [value |-> IF cmd \in Getters THEN NameOf(cmd) ELSE None, error |-> None]
    ELSE [value |-> None, error |-> ErrorOf(outcome)]

\* a call of the Bot API and whether it returned; the text argument, the
\* reply_markup argument
BotCall(method, text, markup) == [method |-> method, text |-> text, markup |-> markup]
Answer(text) == BotCall("answer_callback_query", text, NoMarkup)
EditText(text) == BotCall("edit_message_text", text, NoMarkup)
EditMarkup(markup) == BotCall("edit_message_reply_markup", "", markup)
Send(text) == BotCall("send_message", text, NoMarkup)
\* an exception raised while the arguments of a call are evaluated
Raise(type) == BotCall("raise", type, NoMarkup)

FailText(cmd) ==
    CASE cmd = "vm" -> "ne udalos poluchit VM "
      [] cmd = "vm-start" -> "ne udalos zapustit VM "
      [] cmd = "vm-stop" -> "ne udalos ostanovit VM "
      [] cmd = "vm-restart" -> "ne udalos perezapustit VM "
      [] cmd = "cluster" -> "ne udalos poluchit klaster "
      [] cmd = "cluster-start" -> "ne udalos zapustit klaster "
      [] cmd = "cluster-stop" -> "ne udalos ostanovit klaster "
      [] cmd = "func" -> "ne udalos poluchit funktsiyu "
      [] cmd = "func-open" -> "ne udalos otkryt funktsiyu "
      [] cmd = "func-close" -> "ne udalos zakryt funktsiyu "

DoneText(cmd, arg) ==
    CASE cmd = "vm-start" -> "VM " \o arg \o " zapuskaetsya"
      [] cmd = "vm-stop" -> "VM " \o arg \o " ostanavlivaetsya"
      [] cmd = "vm-restart" -> "VM " \o arg \o " perezapuskaetsya"
      [] cmd = "cluster-start" -> "klaster " \o arg \o " zapuskaetsya"
      [] cmd = "cluster-stop" -> "klaster " \o arg \o " ostanavlivaetsya"
      [] cmd = "func-open" -> "funktsiya " \o arg \o " otkryta"
      [] cmd = "func-close" -> "funktsiya " \o arg \o " zakryta"

Keyboard(cmd, arg) ==
    CASE cmd = "vm" ->
            << Button("U+25B6 start", "vm-start:" \o arg),
               Button("U+23F9 stop", "vm-stop:" \o arg),
               Button("U+23EF restart", "vm-restart:" \o arg) >>
      [] cmd = "cluster" ->
            << Button("U+25B6 start", "cluster-start:" \o arg),
               Button("U+23F9 stop", "cluster-stop:" \o arg) >>
      [] cmd = "func" ->
            << Button("open access", "func-open:" \o arg),
               Button("close access", "func-close:" \o arg) >>

\* mutation of Failed: the message is edited before the query is answered
Failed_EditFirst(cmd, arg, error) ==
    << EditText(FailText(cmd) \o arg \o "\n\n" \o error),
       Answer(None),
       EditMarkup(NoMarkup) >>

\* the body of `if error:` of every branch
Failed(cmd, arg, error) ==
    << Answer(None),
       EditText(FailText(cmd) \o arg \o "\n\n" \o error),
       EditMarkup(NoMarkup) >>

\* the else of the branches vm, cluster, func; value.name of None raises
Shown(cmd, arg, value) ==
    << Answer(None),
       IF value = None THEN Raise("AttributeError") ELSE EditText(value),
       EditMarkup(Keyboard(cmd, arg)) >>

\* the else of the branches that change a resource
Done(cmd, arg) == << Answer(None), EditText(DoneText(cmd, arg)) >>

\* the final else
Unknown(data) == << Answer(data), EditMarkup(NoMarkup), Send(data) >>

\* the statements of the branch callback_query takes, in order
Branch(data, cmd, arg, result) ==
    IF cmd \notin CallbackCmds THEN Unknown(data)
    ELSE IF Truthy(result.error) THEN Failed(cmd, arg, result.error)
    ELSE IF cmd \in Getters THEN Shown(cmd, arg, result.value)
    ELSE Done(cmd, arg)

\* cmd, arg = call.data.split(':')
Parts == Split(call, ":")
Cmd == Parts[1]
Arg == Parts[2]

\* the dispatcher of telebot calls callback_query(call)
ReceiveCallback ==
    /\ cb_pc \in {"idle", "returned", "raised"}
    /\ \E data \in CallbackData : call' = data
    /\ cb_pc' = "split"
    /\ cb_result' = [value |-> None, error |-> None]
    /\ cb_raised' = None
    /\ bot_calls' = <<>>
    /\ UNCHANGED <<classVars, dispatchVars>>

\* line 186: unpacking other than two parts raises ValueError
Unpack ==
    /\ cb_pc = "split"
    /\ IF Len(Parts) # 2
       THEN cb_pc' = "raised" /\ cb_raised' = "ValueError"
       ELSE cb_pc' = (IF Cmd \in CallbackCmds THEN "cloud" ELSE "bot")
                /\ cb_raised' = cb_raised
    /\ UNCHANGED <<classVars, dispatchVars, call, cb_result, bot_calls>>

\* the first statement of a branch with a cmd of its own: the helper
CloudCall ==
    /\ cb_pc = "cloud"
    /\ \E outcome \in CloudOutcomes : cb_result' = Helper(Cmd, outcome)
    /\ cb_pc' = "bot"
    /\ UNCHANGED <<classVars, dispatchVars, call, cb_raised, bot_calls>>

\* the next statement of the branch: a call of the Bot API, which returns
\* or raises, or the end of the branch
BotStep ==
    /\ cb_pc = "bot"
    /\ LET branch == Branch(call, Cmd, Arg, cb_result)
           i == Len(bot_calls) + 1
       IN  IF i > Len(branch)
           THEN cb_pc' = "returned" /\ UNCHANGED <<cb_raised, bot_calls>>
           ELSE IF branch[i].method = "raise"
           THEN /\ cb_pc' = "raised"
                /\ cb_raised' = branch[i].text
                /\ bot_calls' = bot_calls
           ELSE /\ bot_calls' = Append(bot_calls, branch[i])
                /\ \/ cb_pc' = cb_pc /\ cb_raised' = cb_raised
                   \/ cb_pc' = "raised" /\ cb_raised' = "ApiTelegramException"
    /\ UNCHANGED <<classVars, dispatchVars, call, cb_result>>

NextCallback == ReceiveCallback \/ Unpack \/ CloudCall \/ BotStep

SpecCallback == Init /\ [][NextCallback]_vars

Answers == SelectSeq(bot_calls, LAMBDA c : c.method = "answer_callback_query")
CallbackFinished == cb_pc \in {"returned", "raised"}

\* C32: in callback_query, for call.data of the form 'cmd:arg' and every
\* outcome of the cloud call, answer_callback_query is called exactly once by
\* the time the handler ends, never twice, and it is the first call of the
\* Bot API: no message is edited or sent before it.
C32_AnswerOnceFirst ==
    /\ Len(Answers) <= 1
    /\ bot_calls # <<>> => bot_calls[1].method = "answer_callback_query"
    /\ (CallbackFinished /\ Len(Parts) = 2) => Len(Answers) = 1

\* the cloud call of 'vm:abcd-1234' failed with details; the query was
\* answered, then the message was edited
C32_Witness ==
    /\ cb_pc = "returned" /\ call = "vm:abcd-1234"
    /\ cb_result.error = "not found"
    /\ Len(bot_calls) = 3
    /\ bot_calls[1] = Answer(None)
    /\ bot_calls[2].method = "edit_message_text"
    /\ bot_calls[3].method = "edit_message_reply_markup"

====
